---- MODULE Spec2Model ----
(***************************************************************************)
(* Waveform ingestion and event classification of the Isovector            *)
(* polarimeter analysis (src/analysis).                                    *)
(*                                                                         *)
(* Units.  Voltages are integers in units of 0.1 mV (1e-4 V): the noise    *)
(* threshold 0.03 V is 300, the cut floor 50 mV is 500, an int16 code of   *)
(* -2000 at volt_scale 1e-4 V/code is -2000, i.e. an amplitude of 0.2 V.   *)
(* volt_scale is in units of 1e-4 V per code.                              *)
(*                                                                         *)
(* A capture file is its header fields (as struct.unpack returns them      *)
(* under the declared byte order) and its payload: the BYTES from          *)
(* curve_offset to end-of-file.  Samples are decoded from those bytes.     *)
(***************************************************************************)
EXTENDS Integers, Sequences, FiniteSets, TLC

VARIABLES
    pc,          \* position of the driver
    samples,     \* the sample codes the oscilloscope captured (ground truth)
    file,        \* the capture file on disk
    host,        \* np.little_endian of the machine running the analysis
    impl,        \* which WfmReader class is used: "utils.wfm" or "wfm_reader"
    reader,      \* the WfmReader object (its fields)
    out,         \* what read_data returned or raised
    amplitudes,  \* what calculate_amplitudes returned
    run,         \* a run directory: channel -> capture file, for the loaders
    loader,      \* which load function is used
    loaded,      \* what the load function returned or raised
    cin,         \* the arguments of categorize_events
    cout,        \* what categorize_events returned or raised
    run_cuts,    \* what calculate_cuts returned
    call,        \* the arguments of a function that is applied on its own
    ret,         \* what that function returned
    batch        \* the runs a main() loops over, its position and its reports

vars == <<pc, samples, file, host, impl, reader, out, amplitudes,
          run, loader, loaded, cin, cout, run_cuts, call, ret, batch>>

-----------------------------------------------------------------------------
(* Bounds of the model *)

MaxExtraFrames == 1
MaxTimeSize == 2
MaxEvents == 2
MaxSamples == 5
MaxSigma == 4
MaxCutEvents == 2

-----------------------------------------------------------------------------
(* Values of the variables that hold nothing yet *)

NoFile == [marker |-> <<>>]
NoReader == [status |-> "none"]
NoOut == [status |-> "none"]
NoRun == <<>>
NoLoad == [status |-> "none"]
NoCat == [status |-> "none"]
NoCuts == <<>>
NoCall == [fn |-> "none"]
NoRet == [status |-> "none"]
NoBatch == [driver |-> "none"]

-----------------------------------------------------------------------------
(* Generic helpers *)

Abs(x) == IF x < 0 THEN -x ELSE x

Reverse(s) == [k \in 1..Len(s) |-> s[Len(s) + 1 - k]]

SeqMin(s) == CHOOSE m \in {s[k] : k \in DOMAIN s} : \A k \in DOMAIN s : m <= s[k]

SeqMax(s) == CHOOSE m \in {s[k] : k \in DOMAIN s} : \A k \in DOMAIN s : m >= s[k]

SetMin(S) == CHOOSE m \in S : \A x \in S : m <= x

-----------------------------------------------------------------------------
(* The binary format: src/analysis/utils/wfm.py, src/analysis/wfm_reader.py *)

FORMAT_INT16 == 0
FORMAT_INT32 == 1
FORMAT_FP32 == 4
FORMAT_INT8 == 7

RecognizedFormats == {FORMAT_INT16, FORMAT_INT32, FORMAT_FP32, FORMAT_INT8}

\* the two byte-order sentinels, as the two bytes f.read(2) returns
MarkerLittle == <<15, 15>>
MarkerBig == <<240, 240>>

\* np.dtype(...).itemsize
ItemSize(dtype) ==
    CASE dtype = "int8" -> 1
      [] dtype = "int16" -> 2
      [] dtype = "int32" -> 4
      [] dtype = "float32" -> 4

\* dtype_map.get(self.data_format, np.int16), with the default of int8
DtypeMapDefaultInt8(data_format) ==
    CASE data_format = FORMAT_INT8 -> "int8"
      [] data_format = FORMAT_INT16 -> "int16"
      [] data_format = FORMAT_INT32 -> "int32"
      [] data_format = FORMAT_FP32 -> "float32"
      [] OTHER -> "int8"

\* dtype_map.get(self.data_format, np.int16)
DtypeMap(data_format) ==
    CASE data_format = FORMAT_INT8 -> "int8"
      [] data_format = FORMAT_INT16 -> "int16"
      [] data_format = FORMAT_INT32 -> "int32"
      [] data_format = FORMAT_FP32 -> "float32"
      [] OTHER -> "int16"

\* A float32 word whose value is no integer lies off the integer grid of the
\* model; 2^24 + 1 is the least positive integer no float32 represents.
OffGrid == 2^24 + 1

\* The value of an item's bytes, given least significant byte first.
ValueLE(dtype, b) ==
    CASE dtype = "int8" -> IF b[1] >= 128 THEN b[1] - 256 ELSE b[1]
      [] dtype = "int16" ->
            (IF b[2] >= 128 THEN b[2] - 256 ELSE b[2]) * 256 + b[1]
      [] dtype = "int32" ->
            (IF b[4] >= 128 THEN b[4] - 256 ELSE b[4]) * 16777216
                + b[3] * 65536 + b[2] * 256 + b[1]
      [] dtype = "float32" ->
            LET s == b[4] \div 128
                e == (b[4] % 128) * 2 + (b[3] \div 128)
                m == (b[3] % 128) * 65536 + b[2] * 256 + b[1]
                sig == 8388608 + m
            IN  IF e = 0 /\ m = 0 THEN 0
                ELSE IF e >= 127 /\ e <= 150 /\ sig % (2^(150 - e)) = 0
                     THEN (IF s = 1 THEN -1 ELSE 1) * (sig \div (2^(150 - e)))
                     ELSE OffGrid

\* How the machine reads an item that lies in memory as the bytes mem.
HostValue(dtype, mem, hostLittle) ==
    ValueLE(dtype, IF hostLittle THEN mem ELSE Reverse(mem))

\* np.fromfile(f, dtype, count): the whole items available, at most count,
\* each item the bytes as they lie in the file.
FromFile(payload, dtype, count) ==
    LET isz == ItemSize(dtype)
        avail == Len(payload) \div isz
        n == IF avail < count THEN avail ELSE count
    IN  [k \in 1..n |-> SubSeq(payload, (k - 1) * isz + 1, k * isz)]

\* raw_data.byteswap()
ByteSwap(raw) == [k \in 1..Len(raw) |-> Reverse(raw[k])]

\* The fields of a WfmReader as __init__ sets them before _parse_header.
\* wfm_reader.py sets no endian there.
InitFields(cls) ==
    [status |-> "new",
     endian |-> IF cls = "utils.wfm" THEN "<" ELSE "unset",
     num_frames |-> 0, time_size |-> 0, time_scale |-> 0, time_offset |-> 0,
     volt_scale |-> 0, volt_offset |-> 0, data_format |-> 0]

\* the frame count with the set-type flag ignored
NumFramesIgnoringSetType(n_fastframes, set_type) == n_fastframes + 1

\* self.num_frames = n_fastframes + 1; if set_type == 0: self.num_frames = 1
NumFrames(n_fastframes, set_type) ==
    IF set_type = 0 THEN 1 ELSE n_fastframes + 1

\* the header fields read once the byte order is known
ReadFields(self, endian, f) ==
    [self EXCEPT !.status = "ok",
                 !.endian = endian,
                 !.num_frames = NumFrames(f.n_fastframes, f.set_type),
                 !.volt_scale = f.volt_scale,
                 !.volt_offset = f.volt_offset,
                 !.data_format = f.data_format,
                 !.time_scale = f.time_scale,
                 !.time_offset = f.time_offset,
                 !.time_size = f.time_size]

\* _parse_header taking every unknown marker for little-endian
ParseHeaderAssumingLittle(self, f) ==
    IF f.marker = MarkerBig THEN ReadFields(self, ">", f)
    ELSE ReadFields(self, "<", f)

\* WfmReader._parse_header (the same in both classes)
ParseHeader(self, f) ==
    IF f.marker = MarkerLittle THEN ReadFields(self, "<", f)
    ELSE IF f.marker = MarkerBig THEN ReadFields(self, ">", f)
    ELSE [self EXCEPT !.status = "ValueError"]

\* swapping whenever the file is big-endian, whatever the host is
NeedsSwapBigFileOnly(endian, hostLittle) == endian = ">"

\* file_is_little != system_is_little
NeedsSwap(endian, hostLittle) == (endian = "<") # hostLittle

\* wfm_reader.py: endian == '>' and little host, or '<' and big host
NeedsSwapLegacy(endian, hostLittle) ==
    \/ endian = ">" /\ hostLittle
    \/ endian = "<" /\ ~hostLittle

\* the conversion without the offset
ToVoltsNoOffset(code, volt_scale, volt_offset) == code * volt_scale

\* V = code * scale + offset
ToVolts(code, volt_scale, volt_offset) == code * volt_scale + volt_offset

\* frames.astype(np.float64) * self.volt_scale + self.volt_offset, on the
\* raw items reshaped to (nframes, time_size)
VoltsMatrix(self, dtype, raw_data, nframes, hostLittle) ==
    [i \in 1..nframes |->
        [k \in 1..self.time_size |->
            ToVolts(HostValue(dtype, raw_data[(i - 1) * self.time_size + k],
                              hostLittle),
                    self.volt_scale, self.volt_offset)]]

\* the axis built over the frames instead of the samples of a trace
TimeAxisOverFrames(self) ==
    [k \in 1..self.num_frames |-> (k - 1) * self.time_scale + self.time_offset]

\* np.arange(self.time_size) * self.time_scale + self.time_offset
TimeAxis(self) ==
    [k \in 1..self.time_size |-> (k - 1) * self.time_scale + self.time_offset]

Raised(what) == [status |-> what, t |-> <<>>, volts |-> <<>>]

\* analysis.utils.wfm.WfmReader.read_data
ReadDataUtils(self, f, hostLittle) ==
    LET total_points == self.num_frames * self.time_size
        np_dtype == DtypeMap(self.data_format)
        raw0 == FromFile(f.payload, np_dtype, total_points)
        raw_data == IF NeedsSwap(self.endian, hostLittle)
                    THEN ByteSwap(raw0) ELSE raw0
        frames_read == Len(raw_data) \div self.time_size
    IN  IF Len(raw_data) # total_points
        THEN IF frames_read = 0
             THEN Raised("ValueError")
             ELSE [status |-> "ok", t |-> TimeAxis(self),
                   volts |-> VoltsMatrix(self, np_dtype, raw_data,
                                         frames_read, hostLittle)]
        ELSE [status |-> "ok", t |-> TimeAxis(self),
              volts |-> VoltsMatrix(self, np_dtype, raw_data,
                                    self.num_frames, hostLittle)]

\* wfm_reader.WfmReader.read_data: reshape((num_frames, time_size)) raises
\* ValueError when the size read is not num_frames * time_size
ReadDataLegacy(self, f, hostLittle) ==
    LET total_points == self.num_frames * self.time_size
        np_dtype == DtypeMap(self.data_format)
        raw0 == FromFile(f.payload, np_dtype, total_points)
        raw_data == IF NeedsSwapLegacy(self.endian, hostLittle)
                    THEN ByteSwap(raw0) ELSE raw0
    IN  IF Len(raw_data) # total_points
        THEN Raised("ValueError")
        ELSE [status |-> "ok", t |-> TimeAxis(self),
              volts |-> VoltsMatrix(self, np_dtype, raw_data,
                                    self.num_frames, hostLittle)]

ReadData(cls, self, f, hostLittle) ==
    IF cls = "utils.wfm" THEN ReadDataUtils(self, f, hostLittle)
    ELSE ReadDataLegacy(self, f, hostLittle)

\* the reader storing the number of frames it read
ReaderAfterReadDataStoringFrames(cls, self, f, hostLittle) ==
    LET res == ReadData(cls, self, f, hostLittle)
    IN  IF res.status = "ok" THEN [self EXCEPT !.num_frames = Len(res.volts)]
        ELSE self

\* the fields of the reader after read_data: neither class assigns an
\* attribute of self in read_data (frames_read stays a local)
ReaderAfterReadData(cls, self, f, hostLittle) == self

\* the amplitude as the largest magnitude of any sample
AmplitudeOfLargestMagnitude(trace) == SeqMax([k \in DOMAIN trace |-> Abs(trace[k])])

\* np.abs(np.min(trace)): one row of calculate_amplitudes
Amplitude(trace) == Abs(SeqMin(trace))

\* process_run.calculate_amplitudes
CalculateAmplitudes(data) ==
    [ch \in DOMAIN data |->
        [i \in 1..Len(data[ch]) |-> Amplitude(data[ch][i])]]

-----------------------------------------------------------------------------
(* Event classification: src/analysis/process_run.py *)

\* config.POSITIVE_NOISE_THRESHOLD = 0.03 V
POSITIVE_NOISE_THRESHOLD == 300

\* a sample at the threshold counted as noise
ExceedsNoiseInclusive(trace) == SeqMax(trace) >= POSITIVE_NOISE_THRESHOLD

\* np.max(data[ch][i]) > config.POSITIVE_NOISE_THRESHOLD
ExceedsNoise(trace) == SeqMax(trace) > POSITIVE_NOISE_THRESHOLD

\* an amplitude at the cut counted as clipped
BelowCutInclusive(amp, cut) == amp * cut.den <= cut.num

\* amplitudes[ch][i] < cuts[ch]; a cut is the float cut.num / cut.den
BelowCut(amp, cut) == amp * cut.den < cut.num

RECURSIVE NoiseScan(_, _, _)
\* for ch in data: if np.max(data[ch][i]) > THRESHOLD: noise; break
\* from channel ch on; event i is 0-based, rows are 1-based.
NoiseScan(data, i, ch) ==
    IF ch > Len(data) THEN "no"
    ELSE IF i + 1 > Len(data[ch]) THEN "IndexError"
    ELSE IF ExceedsNoise(data[ch][i + 1]) THEN "yes"
    ELSE NoiseScan(data, i, ch + 1)

RECURSIVE ClipScan(_, _, _, _, _)
\* for ch in data: if amplitudes[ch][i] < cuts[ch]: clipped; break
ClipScan(data, amps, cuts, i, ch) ==
    IF ch > Len(data) THEN "no"
    ELSE IF i + 1 > Len(amps[ch]) THEN "IndexError"
    ELSE IF BelowCut(amps[ch][i + 1], cuts[ch]) THEN "yes"
    ELSE ClipScan(data, amps, cuts, i, ch + 1)

\* the loop body with the amplitude check made first
ClassifyAmplitudeFirst(data, amps, cuts, i) ==
    LET c == ClipScan(data, amps, cuts, i, 1)
    IN  IF c = "IndexError" THEN c
        ELSE IF c = "yes" THEN "clipped"
        ELSE LET n == NoiseScan(data, i, 1)
             IN  IF n = "IndexError" THEN n
                 ELSE IF n = "yes" THEN "noise" ELSE "clean"

\* the body of the loop of categorize_events for event i: the noise check,
\* `continue` when it fires, else the clipping check
Classify(data, amps, cuts, i) ==
    LET n == NoiseScan(data, i, 1)
    IN  IF n = "IndexError" THEN n
        ELSE IF n = "yes" THEN "noise"
        ELSE LET c == ClipScan(data, amps, cuts, i, 1)
             IN  IF c = "IndexError" THEN c
                 ELSE IF c = "yes" THEN "clipped" ELSE "clean"

\* the appends without the `continue` after noise_indices.append(i)
AppendEventNoContinue(lists, category, i) ==
    CASE category = "noise" ->
            [lists EXCEPT !.noise = Append(@, i), !.clipped = Append(@, i)]
      [] category = "clipped" -> [lists EXCEPT !.clipped = Append(@, i)]
      [] category = "clean" -> [lists EXCEPT !.clean = Append(@, i)]

\* the appends made as insert(0, i)
AppendEventAtFront(lists, category, i) ==
    CASE category = "noise" -> [lists EXCEPT !.noise = <<i>> \o @]
      [] category = "clipped" -> [lists EXCEPT !.clipped = <<i>> \o @]
      [] category = "clean" -> [lists EXCEPT !.clean = <<i>> \o @]

\* noise_indices.append(i) / clipped_indices.append(i) / clean_indices.append(i)
AppendEvent(lists, category, i) ==
    CASE category = "noise" -> [lists EXCEPT !.noise = Append(@, i)]
      [] category = "clipped" -> [lists EXCEPT !.clipped = Append(@, i)]
      [] category = "clean" -> [lists EXCEPT !.clean = Append(@, i)]

RECURSIVE CategorizeFrom(_, _, _, _, _, _)
\* for i in range(num_events), from event i on
CategorizeFrom(data, amps, cuts, num_events, i, lists) ==
    IF i >= num_events THEN lists
    ELSE LET category == Classify(data, amps, cuts, i)
         IN  IF category = "IndexError"
             THEN [status |-> "IndexError", clean |-> <<>>, clipped |-> <<>>,
                   noise |-> <<>>]
             ELSE CategorizeFrom(data, amps, cuts, num_events, i + 1,
                                 AppendEvent(lists, category, i))

\* process_run.categorize_events
CategorizeEvents(data, amps, cuts, num_events) ==
    CategorizeFrom(data, amps, cuts, num_events, 0,
                   [status |-> "ok", clean |-> <<>>, clipped |-> <<>>,
                    noise |-> <<>>])

-----------------------------------------------------------------------------
(* Arrival time: src/analysis/utils/physics.py *)

\* config.CFD_FRACTION = 0.3, as the fraction 3/10
CFD_FRACTION_NUM == 3
CFD_FRACTION_DEN == 10

CFD_FRACTION == [num |-> CFD_FRACTION_NUM, den |-> CFD_FRACTION_DEN]

\* the noise floor of get_dcfd_time: v_peak > -0.0005 V fails
NOISE_FLOOR == 5

RECURSIVE Gcd(_, _)
Gcd(a, b) == IF b = 0 THEN a ELSE Gcd(b, a % b)

NaN == [nan |-> TRUE]

\* the time num/den in lowest terms with a positive denominator
Time(num, den) ==
    LET g == Gcd(Abs(num), Abs(den))
        sgn == IF den < 0 THEN -1 ELSE 1
    IN  [nan |-> FALSE, num |-> sgn * (num \div g), den |-> sgn * (den \div g)]

\* what a call returns in the model when time[i] or time[i+1] raises IndexError
\* (the time axis is shorter than the trace)
IndexError == [nan |-> FALSE, raised |-> "IndexError"]

\* np.argmin(waveform): the first index of the minimum (1-based here)
ArgMin(w) == CHOOSE k \in DOMAIN w :
                /\ \A j \in DOMAIN w : w[k] <= w[j]
                /\ \A j \in DOMAIN w : j < k => w[j] > w[k]

\* v < fraction * v_peak and v > fraction * v_peak, compared exactly
BelowTarget(v, v_peak, fraction) == fraction.den * v < fraction.num * v_peak

AboveTarget(v, v_peak, fraction) == fraction.den * v > fraction.num * v_peak

\* candidates[0] instead of candidates[-1]
LastCandidateTakingFirst(candidates) ==
    CHOOSE k \in candidates : \A j \in candidates : j >= k

\* i = candidates[-1]
LastCandidate(candidates) ==
    CHOOSE k \in candidates : \A j \in candidates : j <= k

\* the interpolation with the weight taken from the far end
InterpolateFromNext(t_i, t_next, v_i, v_next, v_peak, fraction) ==
    LET slope == v_next - v_i
    IN  IF slope = 0 THEN Time(t_i, 1)
        ELSE Time(t_i * fraction.den * slope
                     + (t_next - t_i)
                          * (fraction.num * v_peak - fraction.den * v_next),
                  fraction.den * slope)

\* slope = v_next - v_i; if slope == 0: return t_i
\* t_interp = t_i + (t_next - t_i) * (v_target - v_i) / slope
Interpolate(t_i, t_next, v_i, v_next, v_peak, fraction) ==
    LET slope == v_next - v_i
    IN  IF slope = 0 THEN Time(t_i, 1)
        ELSE Time(t_i * fraction.den * slope
                     + (t_next - t_i)
                          * (fraction.num * v_peak - fraction.den * v_i),
                  fraction.den * slope)

\* from candidates = np.where(search_region > v_target)[0] to the end of
\* get_dcfd_time; the same text in physics.py and in analyse_physical.py
ScanRisingEdge(time, waveform, idx_peak, fraction) ==
    LET v_peak == waveform[idx_peak]
        candidates == {k \in 1..(idx_peak - 1) :
                          AboveTarget(waveform[k], v_peak, fraction)}
    IN  IF candidates = {} THEN NaN
        ELSE LET i == LastCandidate(candidates)
             IN  IF i >= idx_peak - 1 THEN NaN
                 ELSE IF i + 1 > Len(time) THEN IndexError
                 ELSE Interpolate(time[i], time[i + 1],
                                  waveform[i], waveform[i + 1],
                                  v_peak, fraction)

\* physics.get_dcfd_time(time, waveform, fraction); v_target is
\* fraction * v_peak, compared and interpolated exactly
GetDcfdTime(time, waveform, fraction) ==
    LET idx_peak == ArgMin(waveform)
        v_peak == waveform[idx_peak]
        crossed == {k \in 1..(idx_peak - 1) :
                       BelowTarget(waveform[k], v_peak, fraction)}
    IN  IF v_peak > -NOISE_FLOOR THEN NaN
        ELSE IF crossed = {} THEN NaN
        ELSE ScanRisingEdge(time, waveform, idx_peak, fraction)

\* analyse_physical.get_dcfd_time(time, waveform, fraction): the peak only
\* has to be <= 0
GetDcfdTimePhysical(time, waveform, fraction) ==
    LET idx_peak == ArgMin(waveform)
        v_peak == waveform[idx_peak]
    IN  IF v_peak > 0 THEN NaN
        ELSE ScanRisingEdge(time, waveform, idx_peak, fraction)

-----------------------------------------------------------------------------
(* Channel jitters from pair variances: process_run.solve_jitter *)

\* a float that is the exact quotient num/den, in lowest terms
Rational(num, den) == Time(num, den)

\* the determinant of a 3x3 matrix
Det3(M) ==
      (M[1][1] * ((M[2][2] * M[3][3]) - (M[2][3] * M[3][2])))
    - (M[1][2] * ((M[2][1] * M[3][3]) - (M[2][3] * M[3][1])))
    + (M[1][3] * ((M[2][1] * M[3][2]) - (M[2][2] * M[3][1])))

\* M without its first row and its column c, for a 4x4 matrix
Minor(M, c) ==
    LET col(k) == IF k < c THEN k ELSE k + 1
    IN  <<<<M[2][col(1)], M[2][col(2)], M[2][col(3)]>>,
          <<M[3][col(1)], M[3][col(2)], M[3][col(3)]>>,
          <<M[4][col(1)], M[4][col(2)], M[4][col(3)]>>>>

\* the determinant of a 4x4 matrix, expanded along its first row
Det(M) ==
      (M[1][1] * Det3(Minor(M, 1))) - (M[1][2] * Det3(Minor(M, 2)))
    + (M[1][3] * Det3(Minor(M, 3))) - (M[1][4] * Det3(Minor(M, 4)))

\* M with its column c replaced by the vector v, for a 4x4 matrix
WithColumn(M, c, v) ==
    LET e(r, k) == IF k = c THEN v[r] ELSE M[r][k]
    IN  <<<<e(1, 1), e(1, 2), e(1, 3), e(1, 4)>>,
          <<e(2, 1), e(2, 2), e(2, 3), e(2, 4)>>,
          <<e(3, 1), e(3, 2), e(3, 3), e(3, 4)>>,
          <<e(4, 1), e(4, 2), e(4, 3), e(4, 4)>>>>

RECURSIVE Dot(_, _, _, _)
\* the sum over the rows r.. of A[r][i] * w[r]
Dot(A, i, w, r) ==
    IF r > Len(A) THEN 0 ELSE (A[r][i] * w[r]) + Dot(A, i, w, r + 1)

\* column j of A
Column(A, j) == [r \in 1..Len(A) |-> A[r][j]]

\* the normal equations (A^T A) x = A^T b of four unknowns, with every
\* unknown outside `free` held at 0: its row is x_c = 0 and its column is
\* dropped from the other rows
NormalEquations(A, b, free) ==
    LET q(i, j) == IF i \in free
                   THEN (IF j \in free THEN Dot(A, i, Column(A, j), 1) ELSE 0)
                   ELSE (IF i = j THEN 1 ELSE 0)
        t(i) == IF i \in free THEN Dot(A, i, b, 1) ELSE 0
    IN  [Q |-> <<<<q(1, 1), q(1, 2), q(1, 3), q(1, 4)>>,
                 <<q(2, 1), q(2, 2), q(2, 3), q(2, 4)>>,
                 <<q(3, 1), q(3, 2), q(3, 3), q(3, 4)>>,
                 <<q(4, 1), q(4, 2), q(4, 3), q(4, 4)>>>>,
         rhs |-> <<t(1), t(2), t(3), t(4)>>]

\* their solution x = num / den by Cramer's rule (den = 0: not unique)
CramerSolve(eq) ==
    [den |-> Det(eq.Q),
     num |-> <<Det(WithColumn(eq.Q, 1, eq.rhs)), Det(WithColumn(eq.Q, 2, eq.rhs)),
               Det(WithColumn(eq.Q, 3, eq.rhs)), Det(WithColumn(eq.Q, 4, eq.rhs))>>]

\* the gradient A^T (A x - b) in column c, times x.den
Gradient(A, b, x, c) ==
      (Dot(A, c, Column(A, 1), 1) * x.num[1]) + (Dot(A, c, Column(A, 2), 1) * x.num[2])
    + (Dot(A, c, Column(A, 3), 1) * x.num[3]) + (Dot(A, c, Column(A, 4), 1) * x.num[4])
    - (Dot(A, c, b, 1) * x.den)

\* x solves the problem: it is unique for its free set, lies within the
\* bound, and the gradient is >= 0 in every column held at the bound
IsOptimal(A, b, x, free, bounded) ==
    /\ x.den # 0
    /\ bounded => \A c \in free : x.num[c] * x.den >= 0
    /\ \A c \in (1..4) \ free : Gradient(A, b, x, c) * x.den >= 0

\* scipy.optimize.lsq_linear(A, b, bounds) for four unknowns: the minimisers
\* of |A x - b|^2 over x >= 0 (bounded) or over all x (not bounded), found
\* exactly by trying every set of unknowns that are not held at the bound
LsqLinear(A, b, bounded) ==
    LET frees == IF bounded THEN SUBSET (1..4) ELSE {1..4}
        sols == {[free |-> F, x |-> CramerSolve(NormalEquations(A, b, F))] :
                    F \in frees}
    IN  {[c \in 1..4 |-> Rational(s.x.num[c], s.x.den)] :
            s \in {z \in sols : IsOptimal(A, b, z.x, z.free, bounded)}}

\* np.sqrt of a float: NaN below zero, the exact root of a square, and
\* otherwise the irrational root, kept as the number it is the root of
Sqrt(x) ==
    IF x = NaN \/ x.num < 0 THEN NaN
    ELSE IF /\ \E k \in 0..x.num : k * k = x.num
            /\ \E k \in 1..x.den : k * k = x.den
    THEN Rational(CHOOSE k \in 0..x.num : k * k = x.num,
                  CHOOSE k \in 1..x.den : k * k = x.den)
    ELSE [nan |-> FALSE, root_of |-> x]

\* the least common denominator of floats that are numbers
RECURSIVE CommonDenominator(_)
CommonDenominator(y) ==
    IF Len(y) = 0 THEN 1
    ELSE LET rest == CommonDenominator(Tail(y))
         IN  (y[1].den * rest) \div Gcd(y[1].den, rest)

RECURSIVE NumbersFrom(_, _)
NumbersFrom(y, scale) ==
    IF Len(y) = 0 THEN <<>>
    ELSE <<y[1].num * (scale \div y[1].den)>> \o NumbersFrom(Tail(y), scale)

\* the floats of y as whole numbers: each times the common denominator of y
\* (the minimisers of |A x - b|^2 over x >= 0 scale with b)
Numbers(y) == NumbersFrom(y, CommonDenominator(y))

\* res.x of the problem scaled by `scale`, scaled back
Unscaled(x, scale) == Rational(x.num, x.den * scale)

\* A with the rows of the pairs 1-4 and 2-3 exchanged
JitterMatrixRowsExchanged ==
    <<<<1, 1, 0, 0>>, <<1, 0, 1, 0>>, <<0, 1, 1, 0>>,
      <<1, 0, 0, 1>>, <<0, 1, 0, 1>>, <<0, 0, 1, 1>>>>

\* A of solve_jitter: one row per pair (1-2, 1-3, 1-4, 2-3, 2-4, 3-4)
JitterMatrix ==
    <<<<1, 1, 0, 0>>, <<1, 0, 1, 0>>, <<1, 0, 0, 1>>,
      <<0, 1, 1, 0>>, <<0, 1, 0, 1>>, <<0, 0, 1, 1>>>>

\* np.sum(valid_mask) < 4
MIN_VALID_PAIRS == 4

\* valid_mask = ~np.isnan(y), as the rows it keeps
ValidMask(y) == {r \in DOMAIN y : y[r] # NaN}

RECURSIVE MaskedFrom(_, _, _)
MaskedFrom(M, valid_mask, r) ==
    IF r > Len(M) THEN <<>>
    ELSE (IF r \in valid_mask THEN <<M[r]>> ELSE <<>>)
            \o MaskedFrom(M, valid_mask, r + 1)

\* M[valid_mask]
Masked(M, valid_mask) == MaskedFrom(M, valid_mask, 1)

\* solve_jitter that solves from three valid pair variances on
SolveJitterFromThree(pair_vars) ==
    LET valid_mask == ValidMask(pair_vars)
    IN  IF Cardinality(valid_mask) < MIN_VALID_PAIRS - 1
        THEN {[sigmas |-> [c \in 1..4 |-> NaN], lsq_linear_calls |-> 0]}
        ELSE LET y == Masked(pair_vars, valid_mask)
             IN  {[sigmas |-> [c \in 1..4 |->
                                 Sqrt(Unscaled(x[c], CommonDenominator(y)))],
                   lsq_linear_calls |-> 1] :
                     x \in LsqLinear(Masked(JitterMatrix, valid_mask),
                                     Numbers(y), TRUE)}

\* solve_jitter without bounds=(0, np.inf)
SolveJitterUnbounded(pair_vars) ==
    LET valid_mask == ValidMask(pair_vars)
    IN  IF Cardinality(valid_mask) < MIN_VALID_PAIRS
        THEN {[sigmas |-> [c \in 1..4 |-> NaN], lsq_linear_calls |-> 0]}
        ELSE LET y == Masked(pair_vars, valid_mask)
             IN  {[sigmas |-> [c \in 1..4 |->
                                 Sqrt(Unscaled(x[c], CommonDenominator(y)))],
                   lsq_linear_calls |-> 1] :
                     x \in LsqLinear(Masked(JitterMatrix, valid_mask),
                                     Numbers(y), FALSE)}

\* process_run.solve_jitter(pair_vars): what it can return, with the number
\* of calls of lsq_linear it made
SolveJitter(pair_vars) ==
    LET valid_mask == ValidMask(pair_vars)
    IN  IF Cardinality(valid_mask) < MIN_VALID_PAIRS
        THEN {[sigmas |-> [c \in 1..4 |-> NaN], lsq_linear_calls |-> 0]}
        ELSE LET y == Masked(pair_vars, valid_mask)
             IN  {[sigmas |-> [c \in 1..4 |->
                                 Sqrt(Unscaled(x[c], CommonDenominator(y)))],
                   lsq_linear_calls |-> 1] :
                     x \in LsqLinear(Masked(JitterMatrix, valid_mask),
                                     Numbers(y), TRUE)}

-----------------------------------------------------------------------------
(* Amplitude cuts: process_run.calculate_cuts *)

\* config.DEFAULT_CUT_THRESHOLD_MV / 1000.0 = 0.05 V
DEFAULT_CUT_THRESHOLD == 500

\* np.histogram(amps, bins=100, range=(0, 0.5)): 100 bins of 5 mV up to 0.5 V
HIST_BINS == 100
HIST_RANGE == 5000

BinWidth == HIST_RANGE \div HIST_BINS

\* the bin (0-based) np.histogram counts the amplitude in: the last bin is
\* closed on the right, amplitudes outside the range are not counted (-1)
BinOf(amp) ==
    IF amp < 0 \/ amp > HIST_RANGE THEN -1
    ELSE IF amp = HIST_RANGE THEN HIST_BINS - 1
    ELSE amp \div BinWidth

\* counts[k]
Counts(amps, k) == Cardinality({j \in DOMAIN amps : BinOf(amps[j]) = k})

\* peak_idx = np.argmax(counts): the first bin with the largest count
PeakIdx(amps) ==
    LET used == {BinOf(amps[j]) : j \in DOMAIN amps} \ {-1}
    IN  IF used = {} THEN 0
        ELSE CHOOSE k \in used :
                \A j \in used : \/ Counts(amps, j) < Counts(amps, k)
                                \/ Counts(amps, j) = Counts(amps, k) /\ k <= j

\* bin_centers[peak_idx] = (bins[k] + bins[k+1]) / 2
PeakVal(amps) ==
    Rational((2 * PeakIdx(amps) * BinWidth) + BinWidth, 2)

\* max(a, b) of two floats
MaxFloat(a, b) == IF a.num * b.den >= b.num * a.den THEN a ELSE b

\* peak_val * 0.9
NinetyPercent(x) == Rational(9 * x.num, 10 * x.den)

\* position = config_str.index(str(ch)) if str(ch) in config_str else -1
Position(ch, config_str) ==
    IF \E k \in DOMAIN config_str : config_str[k] = ch
    THEN (CHOOSE k \in DOMAIN config_str :
             /\ config_str[k] = ch
             /\ \A j \in 1..(k - 1) : config_str[j] # ch) - 1
    ELSE -1

\* the cut of every channel taken from its peak, whatever its position
CalculateCutsAllFromPeak(amps_by_ch, config_str) ==
    [ch \in DOMAIN amps_by_ch |->
        MaxFloat(Rational(DEFAULT_CUT_THRESHOLD, 1),
                 NinetyPercent(PeakVal(amps_by_ch[ch])))]

\* process_run.calculate_cuts(amplitudes, config_str)
CalculateCuts(amps_by_ch, config_str) ==
    [ch \in DOMAIN amps_by_ch |->
        LET position == Position(ch, config_str)
        IN  IF position = 0 \/ position = 3
            THEN MaxFloat(Rational(DEFAULT_CUT_THRESHOLD, 1),
                          NinetyPercent(PeakVal(amps_by_ch[ch])))
            ELSE Rational(DEFAULT_CUT_THRESHOLD, 1)]

-----------------------------------------------------------------------------
(* Arrival times of the events of a run and the time differences of the
   channel pairs: process_run.extract_timings, plotting.plot_timing_pairs *)

\* extract_timings that times the events 0 .. len(indices)-1
ExtractTimingsFromZero(time, data, indices) ==
    LET t(ch, k) == IF k > Len(data[ch]) THEN IndexError
                    ELSE GetDcfdTime(time, data[ch][k], CFD_FRACTION)
    IN  IF \E ch \in DOMAIN data, k \in DOMAIN indices : t(ch, k) = IndexError
        THEN [status |-> "IndexError", times |-> <<>>]
        ELSE [status |-> "ok",
              times |-> [ch \in DOMAIN data |->
                            [k \in DOMAIN indices |-> t(ch, k)]]]

\* process_run.extract_timings(time, data, indices): for idx in indices, for
\* ch in data, times[ch].append(get_dcfd_time(time, data[ch][idx], 0.3));
\* the event idx is the row idx + 1 here
ExtractTimings(time, data, indices) ==
    LET t(ch, k) == IF indices[k] + 1 > Len(data[ch]) THEN IndexError
                    ELSE GetDcfdTime(time, data[ch][indices[k] + 1], CFD_FRACTION)
    IN  IF \E ch \in DOMAIN data, k \in DOMAIN indices : t(ch, k) = IndexError
        THEN [status |-> "IndexError", times |-> <<>>]
        ELSE [status |-> "ok",
              times |-> [ch \in DOMAIN data |->
                            [k \in DOMAIN indices |-> t(ch, k)]]]

\* a - b of two floats; NaN when either is NaN
Minus(a, b) ==
    IF a = NaN \/ b = NaN THEN NaN
    ELSE Rational((a.num * b.den) - (b.num * a.den), a.den * b.den)

\* a + b and a * b of two floats that are numbers
Plus(a, b) == Rational((a.num * b.den) + (b.num * a.den), a.den * b.den)

Times(a, b) == Rational(a.num * b.num, a.den * b.den)

\* the mask that looks at the first channel of the pair only
BothDefinedFirstOnly(tA, tB) == {k \in DOMAIN tA : tA[k] # NaN}

\* mask = (~np.isnan(tA)) & (~np.isnan(tB)), as the entries it keeps
BothDefined(tA, tB) == {k \in DOMAIN tA : tA[k] # NaN /\ tB[k] # NaN}

RECURSIVE DeltaFrom(_, _, _, _)
DeltaFrom(tA, tB, mask, k) ==
    IF k > Len(tA) THEN <<>>
    ELSE (IF k \in mask THEN <<Minus(tA[k], tB[k])>> ELSE <<>>)
            \o DeltaFrom(tA, tB, mask, k + 1)

\* delta_t = tA[mask] - tB[mask]; the times of the model are in ns
DeltaT(tA, tB) == DeltaFrom(tA, tB, BothDefined(tA, tB), 1)

RECURSIVE SumFloats(_)
SumFloats(d) ==
    IF Len(d) = 0 THEN Rational(0, 1) ELSE Plus(d[1], SumFloats(Tail(d)))

\* np.mean(delta_t): NaN for an empty array
Mean(d) ==
    IF Len(d) = 0 \/ \E k \in DOMAIN d : d[k] = NaN THEN NaN
    ELSE Times(SumFloats(d), Rational(1, Len(d)))

\* np.std(delta_t) ** 2: the mean of the squared deviations from the mean
Variance(d) ==
    IF Mean(d) = NaN THEN NaN
    ELSE Mean([k \in DOMAIN d |->
                  Times(Minus(d[k], Mean(d)), Minus(d[k], Mean(d)))])

\* the loop body of plot_timing_pairs for the pair (chA, chB), up to
\* mean and std
PairStatistics(times, chA, chB) ==
    LET delta_t == DeltaT(times[chA], times[chB])
    IN  [delta_t |-> delta_t, mean |-> Mean(delta_t),
         variance |-> Variance(delta_t)]

-----------------------------------------------------------------------------
(* Loading a run: src/analysis/utils/io.py, analyse_trigger_jitter.py,
   analyse_physical.py *)

Min2(a, b) == IF a < b THEN a ELSE b

\* v[:n]
FirstRows(v, n) == SubSeq(v, 1, Min2(n, Len(v)))

LoadFailed(what) ==
    [status |-> what, time |-> <<>>, data |-> <<>>, num_events |-> 0,
     times |-> <<>>]

\* utils.io.load_run_data: every *_Ch*.wfm file of the run, sorted, is read
\* with utils.wfm.WfmReader; min_len is the least v.shape[0]
LoadRunDataIo(r, hostLittle) ==
    LET present == {ch \in DOMAIN r : r[ch] # NoFile}
        wfm == [ch \in present |-> ParseHeader(InitFields("utils.wfm"), r[ch])]
        res == [ch \in present |->
                   IF wfm[ch].status = "ok"
                   THEN ReadDataUtils(wfm[ch], r[ch], hostLittle)
                   ELSE Raised("ValueError")]
    IN  IF present = {}
        THEN [status |-> "ok", time |-> <<>>, data |-> <<>>, num_events |-> 0,
              times |-> <<>>]
        ELSE IF \E ch \in present : res[ch].status # "ok"
        THEN LoadFailed("ValueError")
        ELSE LET min_len == SetMin({Len(res[ch].volts) : ch \in present})
             IN  [status |-> "ok",
                  time |-> res[SetMin(present)].t,
                  data |-> [ch \in present |-> FirstRows(res[ch].volts, min_len)],
                  num_events |-> min_len,
                  times |-> <<>>]

\* if num_events == 0: num_events = wfm.num_frames
\* else: num_events = min(num_events, wfm.num_frames)
EventCount(num_events, wfm, v) ==
    IF num_events = 0 THEN wfm.num_frames ELSE Min2(num_events, wfm.num_frames)

RECURSIVE ReadChannels(_, _, _, _, _)
\* for ch in range(1, 5): ... of analyse_trigger_jitter.load_run_data and
\* analyse_physical.load_wfm_data, from channel ch on
ReadChannels(cls, r, hostLittle, ch, acc) ==
    IF ch > 4 THEN acc
    ELSE IF r[ch] = NoFile THEN LoadFailed("missing")
    ELSE LET wfm == ParseHeader(InitFields(cls), r[ch])
             res == ReadData(cls, wfm, r[ch], hostLittle)
         IN  IF wfm.status # "ok" THEN LoadFailed("ValueError")
             ELSE IF res.status # "ok" THEN LoadFailed("ValueError")
             ELSE ReadChannels(cls, r, hostLittle, ch + 1,
                     [acc EXCEPT
                         !.time = IF ch = 1 THEN res.t ELSE @,
                         !.data = Append(@, res.volts),
                         !.num_events = EventCount(@, wfm, res.volts)])

\* the loading loop and the truncation raw_data[ch] = raw_data[ch][:num_events]
LoadAndTruncate(cls, r, hostLittle) ==
    LET acc == ReadChannels(cls, r, hostLittle, 1,
                            [status |-> "ok", time |-> <<>>, data |-> <<>>,
                             num_events |-> 0, times |-> <<>>])
    IN  IF acc.status # "ok" THEN acc
        ELSE [acc EXCEPT !.data = [ch \in 1..4 |-> FirstRows(acc.data[ch], acc.num_events)]]

\* analyse_physical.load_wfm_data (wfm_reader.WfmReader)
LoadWfmData(r, hostLittle) == LoadAndTruncate("wfm_reader", r, hostLittle)

RECURSIVE ExtractFrom(_, _, _, _, _, _)
\* for i in range(num_events) of analyse_trigger_jitter.load_run_data: the
\* noise check over the 4 channels, then get_dcfd_time for the target detectors
ExtractFrom(time, raw_data, target_dets, num_events, i, times) ==
    IF i >= num_events THEN [status |-> "ok", times |-> times]
    ELSE LET n == NoiseScan(raw_data, i, 1)
         IN  IF n = "IndexError" THEN [status |-> "IndexError", times |-> <<>>]
             ELSE IF n = "yes"
             THEN ExtractFrom(time, raw_data, target_dets, num_events, i + 1, times)
             ELSE ExtractFrom(time, raw_data, target_dets, num_events, i + 1,
                     [d \in DOMAIN times |->
                         Append(times[d],
                                GetDcfdTime(time, raw_data[target_dets[d]][i + 1],
                                            CFD_FRACTION))])

\* analyse_trigger_jitter.load_run_data (utils.wfm.WfmReader); the k-th list
\* of times belongs to the detector target_dets[k]
LoadRunDataTrigger(r, target_dets, hostLittle) ==
    LET acc == LoadAndTruncate("utils.wfm", r, hostLittle)
    IN  IF acc.status # "ok" THEN acc
        ELSE LET e == ExtractFrom(acc.time, acc.data, target_dets,
                                  acc.num_events, 0,
                                  [d \in DOMAIN target_dets |-> <<>>])
             IN  [acc EXCEPT !.status = e.status, !.times = e.times]

-----------------------------------------------------------------------------
(* The oscilloscope writing a capture file: the inputs of the decoder *)

\* two's complement, least significant byte first
EncodeInt(v, n) == [k \in 1..n |-> (v \div (256^(k - 1))) % 256]

\* IEEE 754 single precision of an integer of magnitude below 2^24
EncodeF32(v) ==
    IF v = 0 THEN <<0, 0, 0, 0>>
    ELSE LET a == Abs(v)
             k == CHOOSE j \in 0..23 : 2^j <= a /\ a < 2^(j + 1)
             e == 127 + k
             m == a * 2^(23 - k) - 8388608
         IN  <<m % 256, (m \div 256) % 256,
               (m \div 65536) + (e % 2) * 128,
               (IF v < 0 THEN 128 ELSE 0) + (e \div 2)>>

EncodeItem(dtype, endian, v) ==
    LET le == IF dtype = "float32" THEN EncodeF32(v)
              ELSE EncodeInt(v, ItemSize(dtype))
    IN  IF endian = ">" THEN Reverse(le) ELSE le

EncodePayload(dtype, endian, smp) ==
    LET isz == ItemSize(dtype)
    IN  [j \in 1..(Len(smp) * isz) |->
            EncodeItem(dtype, endian, smp[((j - 1) \div isz) + 1])[((j - 1) % isz) + 1]]

\* a format code the readers do not know is written as 4-byte items
ScopeDtype(data_format) ==
    IF data_format \in RecognizedFormats THEN DtypeMap(data_format) ELSE "int32"

ScopeEndian(marker) == IF marker = MarkerBig THEN ">" ELSE "<"

UnrecognizedFormats == {2}
Markers == {MarkerLittle, MarkerBig, <<15, 240>>}
SamplePatterns == {<<-2000, 0, 0, 0>>, <<0, -2000, 1>>, <<-1, 1>>, <<3, -100>>}

\* the codes a sample format can hold (float32: the integers it holds exactly)
InRange(dtype, v) ==
    CASE dtype = "int8" -> v >= -128 /\ v <= 127
      [] dtype = "int16" -> v >= -32768 /\ v <= 32767
      [] OTHER -> v > -16777216 /\ v < 16777216
VoltScales == {1, 2}
VoltOffsets == {0, 50}
TimeScales == {2}
TimeOffsets == {-3}

\* the frames the header declares
DeclaredFrames(n_fastframes, set_type) ==
    IF set_type = 0 THEN 1 ELSE n_fastframes + 1

PatternSamples(pat, n) == [k \in 1..n |-> pat[((k - 1) % Len(pat)) + 1]]

\* A capture file, cut after `cut` bytes of payload (a partial write).
CaptureFile(marker, nff, st, vs, vo, fmt, ts, to, tsize, smp, cut) ==
    [marker |-> marker, n_fastframes |-> nff, set_type |-> st,
     volt_scale |-> vs, volt_offset |-> vo, data_format |-> fmt,
     time_scale |-> ts, time_offset |-> to, time_size |-> tsize,
     payload |-> SubSeq(EncodePayload(ScopeDtype(fmt), ScopeEndian(marker), smp),
                        1, cut)]


-----------------------------------------------------------------------------
(* Decoding one capture file *)

InitWfm ==
    /\ pc = "start"
    /\ host \in BOOLEAN
    /\ impl \in {"utils.wfm", "wfm_reader"}
    /\ \E marker \in Markers, nff \in 0..MaxExtraFrames, st \in {0, 1},
          vs \in VoltScales, vo \in VoltOffsets,
          fmt \in RecognizedFormats \cup UnrecognizedFormats,
          ts \in TimeScales, to \in TimeOffsets, tsize \in 1..MaxTimeSize,
          pat \in SamplePatterns :
          LET smp == PatternSamples(pat, DeclaredFrames(nff, st) * tsize)
          IN  /\ \A k \in DOMAIN smp : InRange(ScopeDtype(fmt), smp[k])
              /\ samples = smp
              /\ \E cut \in 0..(Len(smp) * ItemSize(ScopeDtype(fmt))) :
                    file = CaptureFile(marker, nff, st, vs, vo, fmt, ts, to,
                                       tsize, smp, cut)
    /\ reader = NoReader
    /\ out = NoOut
    /\ amplitudes = <<>>
    /\ run = NoRun /\ loader = [fn |-> "none"] /\ loaded = NoLoad
    /\ cin = NoCat /\ cout = NoCat
    /\ run_cuts = NoCuts /\ batch = NoBatch /\ call = NoCall /\ ret = NoRet

\* wfm = WfmReader(path)
Construct ==
    /\ pc = "start"
    /\ reader' = ParseHeader(InitFields(impl), file)
    /\ pc' = IF reader'.status = "ok" THEN "constructed" ELSE "failed"
    /\ UNCHANGED <<samples, file, host, impl, out, amplitudes,
                   run, loader, loaded, cin, cout,
                   run_cuts, call, ret, batch>>

\* t, v = wfm.read_data()
DoReadData ==
    /\ pc = "constructed"
    /\ out' = ReadData(impl, reader, file, host)
    /\ reader' = ReaderAfterReadData(impl, reader, file, host)
    /\ pc' = IF out'.status = "ok" THEN "read" ELSE "failed"
    /\ UNCHANGED <<samples, file, host, impl, amplitudes,
                   run, loader, loaded, cin, cout,
                   run_cuts, call, ret, batch>>

\* amplitudes = calculate_amplitudes({1: v})
DoCalculateAmplitudes ==
    /\ pc = "read"
    /\ amplitudes' = CalculateAmplitudes(<<out.volts>>)
    /\ pc' = "done"
    /\ UNCHANGED <<samples, file, host, impl, reader, out,
                   run, loader, loaded, cin, cout,
                   run_cuts, call, ret, batch>>

\* a second t, v = wfm.read_data() on the same reader
DoReadDataAgain ==
    /\ pc = "done"
    /\ ret' = ReadData(impl, reader, file, host)
    /\ reader' = ReaderAfterReadData(impl, reader, file, host)
    /\ pc' = "read_again"
    /\ UNCHANGED <<samples, file, host, impl, out, amplitudes,
                   run, loader, loaded, cin, cout,
                   run_cuts, call, batch>>

NextWfm == Construct \/ DoReadData \/ DoCalculateAmplitudes \/ DoReadDataAgain

SpecWfm == InitWfm /\ [][NextWfm]_vars

-----------------------------------------------------------------------------
(* Classifying the events of a run: categorize_events on its arguments *)

CatChannelCounts == {1, 2}
CatTraces == {<<300, -2000>>, <<301, -600>>}
CatAmplitudes == {499, 500}
CatCuts == {Rational(499, 1), Rational(500, 1), Rational(999, 2)}

InitCat ==
    /\ pc = "start"
    /\ \E nch \in CatChannelCounts, nrows \in 0..MaxEvents :
          \E data \in [1..nch -> [1..nrows -> CatTraces]],
             amps \in [1..nch -> [1..nrows -> CatAmplitudes]],
             cuts \in [1..nch -> CatCuts],
             num_events \in 0..(nrows + 1) :
             cin = [data |-> data, amplitudes |-> amps, cuts |-> cuts,
                    num_events |-> num_events]
    /\ cout = NoCat
    /\ samples = <<>> /\ file = NoFile /\ host = TRUE /\ impl = "none"
    /\ reader = NoReader /\ out = NoOut /\ amplitudes = <<>>
    /\ run = NoRun /\ loader = [fn |-> "none"] /\ loaded = NoLoad
    /\ run_cuts = NoCuts /\ batch = NoBatch /\ call = NoCall /\ ret = NoRet

\* clean, clipped, noise = categorize_events(data, amplitudes, cuts, num_events)
DoCategorizeEvents ==
    /\ pc = "start"
    /\ cout' = CategorizeEvents(cin.data, cin.amplitudes, cin.cuts, cin.num_events)
    /\ pc' = IF cout'.status = "ok" THEN "done" ELSE "failed"
    /\ UNCHANGED <<samples, file, host, impl, reader, out, amplitudes,
                   run, loader, loaded, cin,
                   run_cuts, call, ret, batch>>

NextCat == DoCategorizeEvents

SpecCat == InitCat /\ [][NextCat]_vars

-----------------------------------------------------------------------------
(* Loading the four channel files of a run *)

LoadPatterns ==
    {<<<<0, -1000, -2000>>, <<0, -1000, -2000>>, <<0, -1000, -2000>>>>,
     <<<<0, -1000, -2000>>, <<400, -1000, -2000>>, <<0, 0, 0>>>>}

TargetDets == {<<2, 3>>, <<4, 1>>}

\* the samples of n frames that follow the pattern pat
PatternFrames(pat, n) ==
    LET tsize == Len(pat[1])
    IN  [j \in 1..(n * tsize) |->
            pat[(((j - 1) \div tsize) % Len(pat)) + 1][((j - 1) % tsize) + 1]]

\* an int16 little-endian file declaring nff + 1 frames and holding `held`
LoadFile(pat, nff, held) ==
    CaptureFile(MarkerLittle, nff, 1, 1, 0, FORMAT_INT16, 2, -3, Len(pat[1]),
                PatternFrames(pat, nff + 1), held * Len(pat[1]) * 2)

InitLoad ==
    /\ pc = "start"
    /\ host = TRUE
    /\ \/ loader \in {[fn |-> "io"], [fn |-> "physical"]}
       \/ \E td \in TargetDets : loader = [fn |-> "trigger_jitter", target_dets |-> td]
    /\ \E pat \in LoadPatterns :
          run \in [1..4 -> {NoFile} \cup
                     {LoadFile(pat, c[1], c[2]) :
                         c \in {d \in (0..MaxExtraFrames) \X (0..(MaxExtraFrames + 1)) :
                                   d[2] <= d[1] + 1}}]
    /\ loaded = NoLoad
    /\ samples = <<>> /\ file = NoFile /\ impl = "none"
    /\ reader = NoReader /\ out = NoOut /\ amplitudes = <<>>
    /\ cin = NoCat /\ cout = NoCat
    /\ run_cuts = NoCuts /\ batch = NoBatch /\ call = NoCall /\ ret = NoRet

\* time, data, meta = io.load_run_data(run_num)
DoLoadRunDataIo ==
    /\ pc = "start" /\ loader.fn = "io"
    /\ loaded' = LoadRunDataIo(run, host)
    /\ pc' = "loaded"
    /\ UNCHANGED <<samples, file, host, impl, reader, out, amplitudes,
                   run, loader, cin, cout,
                   run_cuts, call, ret, batch>>

\* times_map = load_run_data(run_dir, mid_dets) of analyse_trigger_jitter
DoLoadRunDataTrigger ==
    /\ pc = "start" /\ loader.fn = "trigger_jitter"
    /\ loaded' = LoadRunDataTrigger(run, loader.target_dets, host)
    /\ pc' = "loaded"
    /\ UNCHANGED <<samples, file, host, impl, reader, out, amplitudes,
                   run, loader, cin, cout,
                   run_cuts, call, ret, batch>>

\* time, data = load_wfm_data(run_dir) of analyse_physical
DoLoadWfmData ==
    /\ pc = "start" /\ loader.fn = "physical"
    /\ loaded' = LoadWfmData(run, host)
    /\ pc' = "loaded"
    /\ UNCHANGED <<samples, file, host, impl, reader, out, amplitudes,
                   run, loader, cin, cout,
                   run_cuts, call, ret, batch>>

NextLoad == DoLoadRunDataIo \/ DoLoadRunDataTrigger \/ DoLoadWfmData

SpecLoad == InitLoad /\ [][NextLoad]_vars

-----------------------------------------------------------------------------
(* Extracting one arrival time: get_dcfd_time on a time axis and a trace *)

CfdVolts == {0, -2, -3, -6, -20}

CfdFractions == {CFD_FRACTION, [num |-> 1, den |-> 2]}

\* np.arange(n) * x_scale + x_offset, and an axis with uneven steps
CfdAxes(n) == {[k \in 1..n |-> ((k - 1) * 2) - 3], [k \in 1..n |-> k * k]}

CfdImpls == {"utils.physics", "analyse_physical"}

InitCfd ==
    /\ pc = "start"
    /\ \E n \in 1..MaxSamples :
          \E waveform \in [1..n -> CfdVolts], time \in CfdAxes(n),
             fraction \in CfdFractions, m \in CfdImpls :
             call = [fn |-> "get_dcfd_time", impl |-> m, time |-> time,
                     waveform |-> waveform, fraction |-> fraction]
    /\ ret = NoRet
    /\ samples = <<>> /\ file = NoFile /\ host = TRUE /\ impl = "none"
    /\ reader = NoReader /\ out = NoOut /\ amplitudes = <<>>
    /\ run = NoRun /\ loader = [fn |-> "none"] /\ loaded = NoLoad
    /\ cin = NoCat /\ cout = NoCat /\ run_cuts = NoCuts /\ batch = NoBatch

\* t = get_dcfd_time(time, data[ch][idx], CFD_FRACTION)
DoGetDcfdTime ==
    /\ pc = "start" /\ call.fn = "get_dcfd_time"
    /\ ret' = IF call.impl = "utils.physics"
              THEN GetDcfdTime(call.time, call.waveform, call.fraction)
              ELSE GetDcfdTimePhysical(call.time, call.waveform, call.fraction)
    /\ pc' = "done"
    /\ UNCHANGED <<samples, file, host, impl, reader, out, amplitudes,
                   run, loader, loaded, cin, cout, run_cuts, call, batch>>

NextCfd == DoGetDcfdTime

SpecCfd == InitCfd /\ [][NextCfd]_vars

-----------------------------------------------------------------------------
(* Solving for the jitters: solve_jitter on a list of six pair variances *)

\* y = np.array(pair_vars) of whole numbers (of ns^2)
Floats(y) == [k \in DOMAIN y |-> Rational(y[k], 1)]

\* pair variances measured with noise, in ns^2
JitterVars == {0, 5, 30}

\* pairs = [(1,2), (1,3), (1,4), (2,3), (2,4), (3,4)] of plot_timing_pairs,
\* the order of the list pair_vars
PairOrder == <<<<1, 2>>, <<1, 3>>, <<1, 4>>, <<2, 3>>, <<2, 4>>, <<3, 4>>>>

\* the six noiseless pair variances of four channel sigmas
PairVariances(sigma) ==
    [r \in 1..6 |-> (sigma[PairOrder[r][1]] * sigma[PairOrder[r][1]])
                       + (sigma[PairOrder[r][2]] * sigma[PairOrder[r][2]])]

InitJitter ==
    /\ pc = "start"
    /\ \/ \E sigma \in [1..4 -> 0..MaxSigma] :
             call = [fn |-> "solve_jitter",
                     pair_vars |-> Floats(PairVariances(sigma)),
                     sigma |-> sigma]
       \/ \E y \in [1..6 -> {Rational(v, 1) : v \in JitterVars} \cup {NaN}] :
             call = [fn |-> "solve_jitter", pair_vars |-> y, sigma |-> <<>>]
    /\ ret = NoRet
    /\ samples = <<>> /\ file = NoFile /\ host = TRUE /\ impl = "none"
    /\ reader = NoReader /\ out = NoOut /\ amplitudes = <<>>
    /\ run = NoRun /\ loader = [fn |-> "none"] /\ loaded = NoLoad
    /\ cin = NoCat /\ cout = NoCat /\ run_cuts = NoCuts /\ batch = NoBatch

\* sigmas = solve_jitter(pair_vars)
DoSolveJitter ==
    /\ pc = "start" /\ call.fn = "solve_jitter"
    /\ \E r \in SolveJitter(call.pair_vars) : ret' = r
    /\ pc' = "done"
    /\ UNCHANGED <<samples, file, host, impl, reader, out, amplitudes,
                   run, loader, loaded, cin, cout, run_cuts, call, batch>>

NextJitter == DoSolveJitter

SpecJitter == InitJitter /\ [][NextJitter]_vars

-----------------------------------------------------------------------------
(* Cutting on amplitude: calculate_cuts on the amplitudes of four channels *)

\* amplitudes on both sides of the first bin whose 90% passes the floor
CutAmplitudes == {549, 550}

CutConfigs == {<<1, 2, 3, 4>>, <<3, 1, 4, 2>>}

InitCuts ==
    /\ pc = "start"
    /\ \E n \in 0..MaxCutEvents :
          \E amps \in [1..4 -> [1..n -> CutAmplitudes]], config_str \in CutConfigs :
             call = [fn |-> "calculate_cuts", amplitudes |-> amps,
                     config_str |-> config_str]
    /\ ret = NoRet
    /\ samples = <<>> /\ file = NoFile /\ host = TRUE /\ impl = "none"
    /\ reader = NoReader /\ out = NoOut /\ amplitudes = <<>>
    /\ run = NoRun /\ loader = [fn |-> "none"] /\ loaded = NoLoad
    /\ cin = NoCat /\ cout = NoCat /\ run_cuts = NoCuts /\ batch = NoBatch

\* cuts = calculate_cuts(amplitudes, config_str)
DoCalculateCuts ==
    /\ pc = "start" /\ call.fn = "calculate_cuts"
    /\ ret' = [status |-> "ok",
               cuts |-> CalculateCuts(call.amplitudes, call.config_str)]
    /\ pc' = "done"
    /\ UNCHANGED <<samples, file, host, impl, reader, out, amplitudes,
                   run, loader, loaded, cin, cout, run_cuts, call, batch>>

NextCuts == DoCalculateCuts

SpecCuts == InitCuts /\ [][NextCuts]_vars

-----------------------------------------------------------------------------
(* Timing the events of a run: extract_timings on a time axis, the traces of
   four channels and a list of event indices, then the loop of
   plot_timing_pairs over the six pairs *)

\* np.arange(3) * 2 - 3, in ns
TimingAxis == <<-3, -1, 1>>

\* a pulse of channel ch that crosses 30% of its peak between the first two
\* samples, at a time that differs from channel to channel
TimingTrace(ch) == <<0, -2000, -2000 - (1000 * ch)>>

\* a trace without a pulse: get_dcfd_time fails on it
FlatTrace == <<0, 0, 0>>

\* the strictly increasing lists of the events 0 .. n-1
RECURSIVE IncreasingLists(_)
IncreasingLists(n) ==
    IF n = 0 THEN {<<>>}
    ELSE IncreasingLists(n - 1)
            \cup {Append(l, n - 1) : l \in IncreasingLists(n - 1)}

InitTiming ==
    /\ pc = "start"
    /\ \E n \in 0..MaxEvents :
          \E good \in [1..4 -> [1..n -> BOOLEAN]], indices \in IncreasingLists(n) :
             call = [fn |-> "extract_timings", time |-> TimingAxis,
                     data |-> [ch \in 1..4 |->
                                  [e \in 1..n |-> IF good[ch][e] THEN TimingTrace(ch)
                                                  ELSE FlatTrace]],
                     indices |-> indices]
    /\ ret = NoRet
    /\ samples = <<>> /\ file = NoFile /\ host = TRUE /\ impl = "none"
    /\ reader = NoReader /\ out = NoOut /\ amplitudes = <<>>
    /\ run = NoRun /\ loader = [fn |-> "none"] /\ loaded = NoLoad
    /\ cin = NoCat /\ cout = NoCat /\ run_cuts = NoCuts /\ batch = NoBatch

\* times = extract_timings(time, data, clean_indices)
DoExtractTimings ==
    /\ pc = "start" /\ call.fn = "extract_timings"
    /\ LET e == ExtractTimings(call.time, call.data, call.indices)
       IN  /\ ret' = [status |-> e.status, times |-> e.times, pairs |-> <<>>]
           /\ pc' = IF e.status = "ok" THEN "timed" ELSE "failed"
    /\ UNCHANGED <<samples, file, host, impl, reader, out, amplitudes,
                   run, loader, loaded, cin, cout, run_cuts, call, batch>>

\* for i, (chA, chB) in enumerate(pairs): ... of plot_timing_pairs(times, ...)
DoPairStatistics ==
    /\ pc = "timed" /\ call.fn = "extract_timings"
    /\ ret' = [ret EXCEPT !.pairs =
                  [r \in 1..6 |-> PairStatistics(ret.times, PairOrder[r][1],
                                                 PairOrder[r][2])]]
    /\ pc' = "done"
    /\ UNCHANGED <<samples, file, host, impl, reader, out, amplitudes,
                   run, loader, loaded, cin, cout, run_cuts, call, batch>>

NextTiming == DoExtractTimings \/ DoPairStatistics

SpecTiming == InitTiming /\ [][NextTiming]_vars

-----------------------------------------------------------------------------
(* Analysing a run: process_run.analyze_run *)

\* len(clean_indices) < 10: not enough clean events for the jitter analysis
MIN_CLEAN_EVENTS == 10

\* the values of a dict keyed by channel, in the order `for ch in data` visits
\* them (the order of the sorted file names)
RECURSIVE InChannelOrder(_, _)
InChannelOrder(d, ch) ==
    IF ch > 4 THEN <<>>
    ELSE (IF ch \in DOMAIN d THEN <<d[ch]>> ELSE <<>>) \o InChannelOrder(d, ch + 1)

\* frames of a trace of 3 samples: a pulse timed at -2 ns, a pulse timed at
\* -1.5 ns, a pulse above a positive spike, a pulse below the cut floor and
\* a pulse without a sample on its edge (get_dcfd_time fails on it)
FramePulse == <<0, -1200, -2000>>
FrameLatePulse == <<0, -800, -2000>>
FrameSpike == <<400, -1200, -2000>>
FrameSmall == <<0, -100, -300>>
FrameNoEdge == <<0, 0, -2000>>

\* the frames of a channel, repeated to the length of the capture
SteadyChannel == <<FramePulse>>
AlternatingChannel == <<FramePulse, FrameLatePulse>>
DisturbedChannel ==
    <<FramePulse, FrameSpike, FramePulse, FrameSmall, FramePulse, FrameNoEdge,
      FramePulse, FramePulse, FramePulse, FramePulse, FramePulse, FramePulse>>

\* the four channels of a run long enough for the jitter analysis
LongRunChannels ==
    {<<SteadyChannel, SteadyChannel, SteadyChannel, SteadyChannel>>,
     <<SteadyChannel, AlternatingChannel, SteadyChannel, AlternatingChannel>>,
     <<DisturbedChannel, AlternatingChannel, SteadyChannel, SteadyChannel>>}

\* runs of MIN_CLEAN_EVENTS + 1 or + 2 declared frames; the file of channel 1
\* may hold one frame less than it declares
LongRuns ==
    {[ch \in 1..4 |->
         LoadFile(chans[ch], MIN_CLEAN_EVENTS + extra,
                  IF ch = 1 THEN MIN_CLEAN_EVENTS + extra + 1 - lost
                  ELSE MIN_CLEAN_EVENTS + extra + 1)] :
        chans \in LongRunChannels, extra \in {0, 1}, lost \in {0, 1}}

\* runs whose channel files were captured with different record lengths:
\* one frame of 3 samples or one frame of 2 samples per channel
MixedLengthRuns ==
    [1..4 -> {LoadFile(<<<<0, -1000, -2000>>>>, 0, 1),
              LoadFile(<<<<0, -2000>>>>, 0, 1)}]

InitRun ==
    /\ pc = "start"
    /\ host = TRUE
    /\ loader = [fn |-> "io"]
    /\ \E config_str \in CutConfigs :
          call = [fn |-> "analyze_run", config_str |-> config_str]
    /\ \/ \E pat \in LoadPatterns :
             run \in [1..4 -> {NoFile} \cup
                        {LoadFile(pat, c[1], c[2]) :
                            c \in {d \in (0..MaxExtraFrames) \X (0..(MaxExtraFrames + 1)) :
                                      d[2] <= d[1] + 1}}]
       \/ run \in LongRuns
       \/ run \in MixedLengthRuns
    /\ loaded = NoLoad /\ amplitudes = <<>> /\ run_cuts = NoCuts /\ batch = NoBatch /\ cout = NoCat
    /\ ret = NoRet
    /\ samples = <<>> /\ file = NoFile /\ impl = "none"
    /\ reader = NoReader /\ out = NoOut /\ cin = NoCat

\* amplitudes = calculate_amplitudes(data), reached when load_run_data
\* raised nothing and data is not empty; a single channel ends the analysis
\* after its amplitude plot
RunCalculateAmplitudes ==
    /\ pc = "loaded" /\ call.fn = "analyze_run"
    /\ loaded.status = "ok" /\ DOMAIN loaded.data # {}
    /\ amplitudes' = CalculateAmplitudes(loaded.data)
    /\ pc' = IF Cardinality(DOMAIN loaded.data) = 1 THEN "single" ELSE "amplitudes"
    /\ UNCHANGED <<samples, file, host, impl, reader, out,
                   run, loader, loaded, cin, cout, run_cuts, call, ret, batch>>

\* cuts = calculate_cuts(amplitudes, config_str), after the warning when
\* num_channels < 4
RunCalculateCuts ==
    /\ pc = "amplitudes" /\ call.fn = "analyze_run"
    /\ run_cuts' = CalculateCuts(amplitudes, call.config_str)
    /\ pc' = "cuts"
    /\ UNCHANGED <<samples, file, host, impl, reader, out, amplitudes,
                   run, loader, loaded, cin, cout, call, ret, batch>>

\* what the plots between categorize_events and the count of the clean
\* events raise: plot_landau_fits reads amplitudes[ch] for ch in range(1, 5)
\* (KeyError), plot_waveforms plots data[ch][idx] against time for the first
\* events of every list that is not empty (ValueError of matplotlib when the
\* two lengths differ)
PlotsRaise(time, data, lists) ==
    IF \E ch \in 1..4 : ch \notin DOMAIN data THEN "KeyError"
    ELSE IF \E ch \in 1..4 :
               \E idx \in {lists.clean[k] : k \in DOMAIN lists.clean}
                           \cup {lists.clipped[k] : k \in DOMAIN lists.clipped}
                           \cup {lists.noise[k] : k \in DOMAIN lists.noise} :
                  Len(data[ch][idx + 1]) # Len(time)
    THEN "ValueError"
    ELSE "no"

\* clean_indices, clipped_indices, noise_indices = categorize_events(...),
\* the plots, then the return when there are fewer than 10 clean events
RunCategorizeEvents ==
    /\ pc = "cuts" /\ call.fn = "analyze_run"
    /\ cout' = CategorizeEvents(InChannelOrder(loaded.data, 1),
                                InChannelOrder(amplitudes, 1),
                                InChannelOrder(run_cuts, 1),
                                loaded.num_events)
    /\ LET raised == IF cout'.status # "ok" THEN cout'.status
                     ELSE PlotsRaise(loaded.time, loaded.data, cout')
       IN  /\ pc' = IF raised # "no" THEN "failed"
                    ELSE IF Len(cout'.clean) < MIN_CLEAN_EVENTS THEN "few_clean"
                    ELSE "jitter"
           /\ ret' = IF raised # "no" THEN [status |-> raised] ELSE ret
    /\ UNCHANGED <<samples, file, host, impl, reader, out, amplitudes,
                   run, loader, loaded, cin, run_cuts, call, batch>>

\* times = extract_timings(time, data, clean_indices)
RunExtractTimings ==
    /\ pc = "jitter" /\ call.fn = "analyze_run"
    /\ LET e == ExtractTimings(loaded.time, loaded.data, cout.clean)
       IN  /\ ret' = [status |-> e.status, times |-> e.times,
                      pair_vars |-> <<>>, sigmas |-> <<>>]
           /\ pc' = IF e.status = "ok" THEN "timed" ELSE "failed"
    /\ UNCHANGED <<samples, file, host, impl, reader, out, amplitudes,
                   run, loader, loaded, cin, cout, run_cuts, call, batch>>

\* _, pair_vars = plot_timing_pairs(times, run_id, config_str): sigma**2 of
\* every pair, with sigma = np.std(delta_t), the value the Gaussian fit
\* starts from and the one kept when the fit fails
RunPlotTimingPairs ==
    /\ pc = "timed" /\ call.fn = "analyze_run"
    /\ ret' = [ret EXCEPT !.pair_vars =
                  [r \in 1..6 |->
                      PairStatistics(ret.times, PairOrder[r][1],
                                     PairOrder[r][2]).variance]]
    /\ pc' = "pairs"
    /\ UNCHANGED <<samples, file, host, impl, reader, out, amplitudes,
                   run, loader, loaded, cin, cout, run_cuts, call, batch>>

\* sigmas = solve_jitter(pair_vars), then save_results(...)
RunSolveJitter ==
    /\ pc = "pairs" /\ call.fn = "analyze_run"
    /\ \E r \in SolveJitter(ret.pair_vars) :
          ret' = [ret EXCEPT !.sigmas = r.sigmas]
    /\ pc' = "saved"
    /\ UNCHANGED <<samples, file, host, impl, reader, out, amplitudes,
                   run, loader, loaded, cin, cout, run_cuts, call, batch>>

NextRun ==
    \/ DoLoadRunDataIo
    \/ RunCalculateAmplitudes
    \/ RunCalculateCuts
    \/ RunCategorizeEvents
    \/ RunExtractTimings
    \/ RunPlotTimingPairs
    \/ RunSolveJitter

SpecRun == InitRun /\ [][NextRun]_vars

-----------------------------------------------------------------------------
(* A batch of runs: the loop of process_run.main over runs_to_process and
   the loop of analyse_physical.main over the run directories *)

\* the longest list of runs a main() is given
MaxRuns == 3

\* a channel whose pulses have no sample on their edge
EdgelessChannel == <<FrameNoEdge>>

\* the four capture files of a run of MIN_CLEAN_EVENTS + 1 frames
FilesOf(chans) ==
    [ch \in 1..4 |-> LoadFile(chans[ch], MIN_CLEAN_EVENTS, MIN_CLEAN_EVENTS + 1)]

\* the run directories under data/, by name: a run every step of the
\* analysis succeeds on, one whose pair variances do not determine the
\* sigmas, one with too few clean events, one with a file that is not a
\* capture file, one with a file that holds no frame, one without Ch3
DataDir ==
    [steady |-> FilesOf(<<SteadyChannel, AlternatingChannel,
                          SteadyChannel, AlternatingChannel>>),
     edgeless |-> FilesOf(<<EdgelessChannel, EdgelessChannel,
                            SteadyChannel, SteadyChannel>>),
     brief |-> [ch \in 1..4 |-> LoadFile(SteadyChannel, 1, 2)],
     format_error |->
         [ch \in 1..4 |->
             IF ch = 2
             THEN [LoadFile(SteadyChannel, 1, 2) EXCEPT !.marker = <<15, 240>>]
             ELSE LoadFile(SteadyChannel, 1, 2)],
     short_file |->
         [ch \in 1..4 |-> LoadFile(SteadyChannel, 1, IF ch = 4 THEN 0 ELSE 2)],
     missing_channel |->
         [ch \in 1..4 |-> IF ch = 3 THEN NoFile ELSE LoadFile(SteadyChannel, 1, 2)]]

\* the names a run list may hold: "absent" names no directory under data/
RunNames == DOMAIN DataDir \cup {"absent"}

\* the lists of 1 to MaxRuns runs
RunLists(names) == UNION {[1..n -> names] : n \in 1..MaxRuns}

InitBatch ==
    /\ pc = "next"
    /\ host = TRUE
    /\ \/ /\ \E runs \in RunLists(RunNames) :
                batch = [driver |-> "process_run", runs |-> runs,
                         pos |-> 0, log |-> <<>>]
          /\ loader = [fn |-> "io"]
          /\ call = [fn |-> "analyze_run", config_str |-> <<1, 2, 3, 4>>]
       \/ /\ \E runs \in RunLists(DOMAIN DataDir) :
                batch = [driver |-> "analyse_physical", runs |-> runs,
                         pos |-> 0, log |-> <<>>]
          /\ loader = [fn |-> "physical"]
          /\ call = [fn |-> "analyse_physical.analyze_run",
                     config_str |-> <<1, 2, 3, 4>>]
    /\ run = NoRun
    /\ loaded = NoLoad /\ amplitudes = <<>> /\ run_cuts = NoCuts /\ cout = NoCat
    /\ ret = NoRet
    /\ samples = <<>> /\ file = NoFile /\ impl = "none"
    /\ reader = NoReader /\ out = NoOut /\ cin = NoCat

\* the call of analyze_run for the next run of the list, whose locals are
\* those of a new call, but for one thing: every run of the list after the
\* first starts from the locals the run before it left
MainBeginRunKeepingLocals ==
    /\ pc = "next" /\ batch.driver # "none" /\ batch.pos < Len(batch.runs)
    /\ batch' = [batch EXCEPT !.pos = @ + 1]
    /\ LET name == batch.runs[batch.pos + 1]
       IN  IF name \in DOMAIN DataDir
           THEN /\ run' = DataDir[name]
                /\ pc' = "start"
                /\ loaded' = NoLoad
           ELSE /\ run' = NoRun
                /\ pc' = "loaded"
                /\ loaded' = LoadFailed("ValueError")
    /\ UNCHANGED <<samples, file, host, impl, reader, out, amplitudes,
                   loader, cin, cout, run_cuts, call, ret>>

\* for run_num in runs_to_process: analyze_run(run_num), and for run_dir in
\* run_dirs: analyze_run(run_dir): the call for the next run of the list,
\* whose locals are those of a new call. io.load_run_data raises ValueError
\* for a run number find_run_dir knows no directory of
MainBeginRun ==
    /\ pc = "next" /\ batch.driver # "none" /\ batch.pos < Len(batch.runs)
    /\ batch' = [batch EXCEPT !.pos = @ + 1]
    /\ LET name == batch.runs[batch.pos + 1]
       IN  IF name \in DOMAIN DataDir
           THEN /\ run' = DataDir[name]
                /\ pc' = "start"
                /\ loaded' = NoLoad
           ELSE /\ run' = NoRun
                /\ pc' = "loaded"
                /\ loaded' = LoadFailed("ValueError")
    /\ amplitudes' = <<>> /\ run_cuts' = NoCuts /\ cout' = NoCat /\ ret' = NoRet
    /\ UNCHANGED <<samples, file, host, impl, reader, out,
                   loader, cin, call>>

\* what a run left when its call of analyze_run ended: how it ended and the
\* cuts, the lists of events, the arrival times and the sigmas it computed
Report(outcome) ==
    [run |-> batch.runs[batch.pos], outcome |-> outcome, cuts |-> run_cuts,
     lists |-> cout, timing |-> ret]

\* how a call of process_run.analyze_run ends: the ValueError of
\* load_run_data is caught and printed and the call returns, a run without
\* files is skipped, and the call returns after the plot of a single
\* channel, with fewer than 10 clean events and after save_results; any
\* other exception leaves the call and is caught and printed by main
ProcessRunOutcome ==
    IF pc = "loaded" /\ loaded.status # "ok" THEN "error printed"
    ELSE IF pc = "loaded" /\ DOMAIN loaded.data = {} THEN "skipped"
    ELSE IF pc = "failed" THEN "error printed by main"
    ELSE IF pc \in {"single", "few_clean", "saved"} THEN pc
    ELSE "running"

\* the end of a call of process_run.analyze_run and, in main, the except
\* clause around it: the loop goes on to the next run
MainEndRun ==
    /\ batch.driver = "process_run"
    /\ ProcessRunOutcome # "running"
    /\ batch' = [batch EXCEPT !.log = Append(@, Report(ProcessRunOutcome))]
    /\ pc' = "next"
    /\ UNCHANGED <<samples, file, host, impl, reader, out, amplitudes,
                   run, loader, loaded, cin, cout, run_cuts, call, ret>>

\* analyse_physical.analyze_run after load_wfm_data returned the traces:
\* the run is analysed and the call returns; what it computes is not
\* followed here
PhysicalAnalyzeRun ==
    /\ batch.driver = "analyse_physical"
    /\ pc = "loaded" /\ loaded.status = "ok"
    /\ pc' = "analysed"
    /\ UNCHANGED <<samples, file, host, impl, reader, out, amplitudes,
                   run, loader, loaded, cin, cout, run_cuts, call, ret, batch>>

\* the end of a call of analyse_physical.analyze_run: after the analysis, or
\* when load_wfm_data returned None for a run that lacks a channel
PhysicalEndRun ==
    /\ batch.driver = "analyse_physical"
    /\ pc = "analysed" \/ (pc = "loaded" /\ loaded.status = "missing")
    /\ batch' = [batch EXCEPT
                    !.log = Append(@, Report(IF pc = "analysed" THEN "analysed"
                                             ELSE "skipped"))]
    /\ pc' = "next"
    /\ UNCHANGED <<samples, file, host, impl, reader, out, amplitudes,
                   run, loader, loaded, cin, cout, run_cuts, call, ret>>

\* the ValueError WfmReader raised in load_wfm_data leaves analyze_run and
\* then analyse_physical.main, which has no except clause: the program ends
PhysicalRaise ==
    /\ batch.driver = "analyse_physical"
    /\ pc = "loaded" /\ loaded.status = "ValueError"
    /\ pc' = "aborted"
    /\ UNCHANGED <<samples, file, host, impl, reader, out, amplitudes,
                   run, loader, loaded, cin, cout, run_cuts, call, ret, batch>>

NextBatch ==
    \/ MainBeginRun
    \/ DoLoadRunDataIo
    \/ RunCalculateAmplitudes
    \/ RunCalculateCuts
    \/ RunCategorizeEvents
    \/ RunExtractTimings
    \/ RunPlotTimingPairs
    \/ RunSolveJitter
    \/ MainEndRun
    \/ DoLoadWfmData
    \/ PhysicalAnalyzeRun
    \/ PhysicalEndRun
    \/ PhysicalRaise

SpecBatch == InitBatch /\ [][NextBatch]_vars

-----------------------------------------------------------------------------
(* Claims about categorize_events, checked under SpecCat *)

Events == 0..(cin.num_events - 1)

InList(list, i) == \E k \in DOMAIN list : list[k] = i

Occurrences(list, i) == Cardinality({k \in DOMAIN list : list[k] = i})

\* some channel's trace of event i has a sample above the noise threshold
HasNoise(i) ==
    \E ch \in DOMAIN cin.data : \E k \in DOMAIN cin.data[ch][i + 1] :
        cin.data[ch][i + 1][k] > 300

\* some channel's amplitude of event i is strictly below that channel's cut
HasLowAmplitude(i) ==
    \E ch \in DOMAIN cin.data :
        cin.amplitudes[ch][i + 1] * cin.cuts[ch].den < cin.cuts[ch].num

\* C1: the clean, clipped and noise lists are pairwise disjoint and their
\* union is {0, ..., num_events-1}: every event index is in exactly one list.
C1_Partition ==
    (cout.status = "ok")
        => /\ \A i \in Events :
                Occurrences(cout.clean, i) + Occurrences(cout.clipped, i)
                    + Occurrences(cout.noise, i) = 1
           /\ \A k \in DOMAIN cout.clean : cout.clean[k] \in Events
           /\ \A k \in DOMAIN cout.clipped : cout.clipped[k] \in Events
           /\ \A k \in DOMAIN cout.noise : cout.noise[k] \in Events

C1_Witness ==
    /\ cout.status = "ok"
    /\ cin.num_events = 2
    /\ Len(cout.noise) = 1
    /\ Len(cout.clean) + Len(cout.clipped) = 1

\* C2: an event with a sample above the noise threshold in any channel is in
\* the noise list and in neither other list, also when an amplitude is below
\* its cut.
C2_NoisePreempts ==
    (cout.status = "ok")
        => \A i \in Events :
              HasNoise(i) => /\ InList(cout.noise, i)
                             /\ ~InList(cout.clipped, i)
                             /\ ~InList(cout.clean, i)

C2_Witness ==
    /\ cout.status = "ok"
    /\ \E i \in Events :
          HasNoise(i) /\ HasLowAmplitude(i) /\ InList(cout.noise, i)

\* C3: per event, noise iff some channel has a sample above the threshold;
\* otherwise clipped iff some channel's amplitude is strictly below its cut;
\* otherwise clean.
C3_DecisionRule ==
    (cout.status = "ok")
        => \A i \in Events :
              /\ InList(cout.noise, i) <=> HasNoise(i)
              /\ InList(cout.clipped, i) <=> (~HasNoise(i) /\ HasLowAmplitude(i))
              /\ InList(cout.clean, i) <=> (~HasNoise(i) /\ ~HasLowAmplitude(i))

\* a clean event with an amplitude exactly at its cut and a sample exactly
\* at the noise threshold
C3_Witness ==
    /\ cout.status = "ok"
    /\ \E i \in Events :
          /\ InList(cout.clean, i)
          /\ \E ch \in DOMAIN cin.data :
                /\ Rational(cin.amplitudes[ch][i + 1], 1) = cin.cuts[ch]
                /\ SeqMax(cin.data[ch][i + 1]) = 300

\* the entries of the list are strictly increasing
StrictlyIncreasing(list) ==
    \A j, k \in DOMAIN list : j < k => list[j] < list[k]

\* C24: each of the three lists categorize_events returns has its event
\* indices in strictly increasing order, and the three lengths sum to
\* num_events
C24_OrderPreserving ==
    (cout.status = "ok")
        => /\ StrictlyIncreasing(cout.clean)
           /\ StrictlyIncreasing(cout.clipped)
           /\ StrictlyIncreasing(cout.noise)
           /\ Len(cout.clean) + Len(cout.clipped) + Len(cout.noise)
                 = cin.num_events

\* two events went to the same list
C24_Witness ==
    /\ cout.status = "ok"
    /\ cin.num_events = 2
    /\ \/ cout.clean = <<0, 1>>
       \/ cout.clipped = <<0, 1>>
       \/ cout.noise = <<0, 1>>

-----------------------------------------------------------------------------
(* Claims about loading a run, checked under SpecLoad *)

LoaderClass == IF loader.fn = "physical" THEN "wfm_reader" ELSE "utils.wfm"

\* the frames read_data actually decodes from the file of channel ch
DecodedFrames(ch) ==
    Len(ReadData(LoaderClass, ParseHeader(InitFields(LoaderClass), run[ch]),
                 run[ch], host).volts)

\* the load function got past its truncation of the channels
RunLoaded ==
    /\ pc = "loaded"
    /\ loaded.status \in {"ok", "IndexError"}
    /\ DOMAIN loaded.data # {}

\* C10: after a run is loaded every channel has the same number of events,
\* the minimum over the channels of the frames actually decoded, and no
\* per-event loop indexes an event that some channel lacks.
C10_CommonEventCount ==
    RunLoaded
        => /\ \A ch \in DOMAIN loaded.data :
                Len(loaded.data[ch]) =
                    SetMin({DecodedFrames(c) : c \in DOMAIN loaded.data})
           /\ \A ch \in DOMAIN loaded.data : loaded.num_events <= Len(loaded.data[ch])
           /\ loaded.status # "IndexError"

\* C10 for utils.io.load_run_data and analyse_physical.load_wfm_data alone
C10_IoAndPhysicalLoaders ==
    (loader.fn \in {"io", "physical"}) => C10_CommonEventCount

-----------------------------------------------------------------------------
(* Claims about the decoder, checked under SpecWfm *)

ValidMarker == file.marker \in {MarkerLittle, MarkerBig}

\* the whole samples of the decoded item size that lie in the file
AvailableSamples == Len(file.payload) \div ItemSize(DtypeMap(file.data_format))

ReadReturned == reader.status = "ok" /\ out.status # "none"

\* C4: when the file holds fewer raw samples than frame_count x sample_count,
\* read_data returns exactly floor(available_samples / sample_count) traces
\* made of samples inside the file, without raising; it raises only when no
\* full frame is available.
C4_ShortFileTruncates ==
    (ReadReturned /\ AvailableSamples < reader.num_frames * reader.time_size)
        => IF AvailableSamples \div reader.time_size = 0
           THEN out.status = "ValueError"
           ELSE /\ out.status = "ok"
                /\ Len(out.volts) = AvailableSamples \div reader.time_size
                /\ Len(out.volts) * reader.time_size <= AvailableSamples

\* C4 for analysis.utils.wfm.WfmReader alone, which does truncate.
C4_UtilsReaderTruncates == (impl = "utils.wfm") => C4_ShortFileTruncates

\* C5: constructing the reader on a file whose first two bytes are neither
\* sentinel fails, no header field is read and no sample is ever decoded.
C5_BadMarkerFails ==
    (~ValidMarker /\ pc # "start")
        => /\ pc = "failed"
           /\ reader.status = "ValueError"
           /\ reader.num_frames = 0 /\ reader.time_size = 0
           /\ reader.volt_scale = 0 /\ reader.time_scale = 0
           /\ out = NoOut
           /\ amplitudes = <<>>

C5_Witness == ~ValidMarker /\ pc = "failed" /\ reader.status = "ValueError"

\* C6 as stated: a file whose sample-format code is not recognized is never
\* decoded; read_data fails.
C6_UnknownFormatFails ==
    (ReadReturned /\ file.data_format \notin RecognizedFormats)
        => out.status # "ok"

\* C6 amended: a file whose sample-format code is not recognized raises no
\* format error: read_data returns what it returns for the same file with
\* the format code of int16.
C6_UnknownFormatReadAsInt16 ==
    (ReadReturned /\ file.data_format \notin RecognizedFormats)
        => out = ReadData(impl, [reader EXCEPT !.data_format = FORMAT_INT16],
                          file, host)

C6_Witness ==
    /\ ReadReturned
    /\ file.data_format \notin RecognizedFormats
    /\ out.status = "ok"
    /\ \E i \in DOMAIN out.volts :
          \E k \in DOMAIN out.volts[i] : out.volts[i][k] # file.volt_offset

\* C7: the declared frame count is the extra-frame count plus 1, and exactly
\* 1 when the set-type flag marks a single waveform.
C7_FrameCount ==
    (reader.status = "ok")
        => reader.num_frames =
              (IF file.set_type = 0 THEN 1 ELSE file.n_fastframes + 1)

C7_Witness ==
    /\ reader.status = "ok"
    /\ file.set_type = 0 /\ file.n_fastframes >= 1
    /\ reader.num_frames = 1

\* the example of the spec, on a trace of MaxTimeSize samples: one frame of
\* int16, volt_scale 1e-4, volt_offset 0, one sample of -2000, the rest 0
C8_Example ==
    /\ ValidMarker
    /\ file.data_format = FORMAT_INT16
    /\ file.n_fastframes = 0
    /\ file.volt_scale = 1 /\ file.volt_offset = 0
    /\ file.time_size = MaxTimeSize
    /\ Len(file.payload) = 2 * MaxTimeSize
    /\ \E k \in DOMAIN samples :
          samples[k] = -2000 /\ \A j \in DOMAIN samples : j # k => samples[j] = 0

\* C8: every retained sample decodes to raw_code * volt_scale + volt_offset,
\* the amplitude of an event is the magnitude of its minimum voltage, and
\* the example file has the amplitude 0.2 V (2000).
C8_VoltageAndAmplitude ==
    /\ (out.status = "ok" /\ file.data_format \in RecognizedFormats)
          => \A i \in DOMAIN out.volts : \A k \in DOMAIN out.volts[i] :
                out.volts[i][k] =
                    samples[(i - 1) * file.time_size + k] * file.volt_scale
                        + file.volt_offset
    /\ (pc = "done")
          => /\ DOMAIN amplitudes[1] = DOMAIN out.volts
             /\ \A i \in DOMAIN out.volts :
                   \E k \in DOMAIN out.volts[i] :
                      /\ \A j \in DOMAIN out.volts[i] :
                            out.volts[i][k] <= out.volts[i][j]
                      /\ amplitudes[1][i] = Abs(out.volts[i][k])
    /\ (pc = "done" /\ C8_Example) => amplitudes[1] = <<2000>>

C8_Witness == pc = "done" /\ C8_Example /\ amplitudes[1] = <<2000>>

\* the same samples written in the other byte order under the other sentinel
MirrorFile ==
    LET other == IF file.marker = MarkerLittle THEN MarkerBig ELSE MarkerLittle
    IN  [file EXCEPT
            !.marker = other,
            !.payload = SubSeq(EncodePayload(ScopeDtype(file.data_format),
                                             ScopeEndian(other), samples),
                               1, Len(file.payload))]

\* C9: the same sample values written little-endian under the little-endian
\* sentinel and big-endian under the big-endian sentinel decode to equal
\* voltage arrays, the voltages of those sample values, on either host.
C9_ByteOrderRoundTrip ==
    (ReadReturned /\ file.data_format \in RecognizedFormats)
        => /\ ReadData(impl, ParseHeader(InitFields(impl), MirrorFile),
                       MirrorFile, host) = out
           /\ out.status = "ok"
                 => \A i \in DOMAIN out.volts : \A k \in DOMAIN out.volts[i] :
                       out.volts[i][k] =
                           ToVolts(samples[(i - 1) * file.time_size + k],
                                   file.volt_scale, file.volt_offset)

C9_Witness ==
    /\ out.status = "ok"
    /\ file.marker = MarkerBig /\ host = TRUE
    /\ file.data_format = FORMAT_INT16
    /\ \E i \in DOMAIN out.volts : \E k \in DOMAIN out.volts[i] :
          out.volts[i][k] = -2000 * file.volt_scale + file.volt_offset
    /\ ReadData(impl, ParseHeader(InitFields(impl), MirrorFile),
                MirrorFile, host) = out

\* the file declares more frames than its payload holds
ShortFile == AvailableSamples < DeclaredFrames(file.n_fastframes, file.set_type)
                                    * file.time_size

\* C26: read_data returns a time axis of exactly sample_count entries with
\* time[k] = k * time_scale + time_offset, and every returned trace has
\* exactly sample_count samples, also when the file holds fewer frames than
\* it declares
C26_TimeAxis ==
    (ReadReturned /\ out.status = "ok")
        => /\ Len(out.t) = file.time_size
           /\ \A k \in 0..(file.time_size - 1) :
                 out.t[k + 1] = (k * file.time_scale) + file.time_offset
           /\ \A i \in DOMAIN out.volts : Len(out.volts[i]) = file.time_size

\* a short file of two declared frames was read into one trace of
\* MaxTimeSize samples
C26_Witness ==
    /\ ReadReturned /\ out.status = "ok" /\ impl = "utils.wfm"
    /\ ShortFile
    /\ file.time_size = MaxTimeSize
    /\ Len(out.volts) = 1
    /\ Len(out.t) = MaxTimeSize

\* C27: read_data changes neither the file nor a field of the reader, and a
\* second read_data on the same reader returns the same time axis and the
\* same voltage matrix
C27_PureRead ==
    /\ ReadReturned =>
          /\ reader = ParseHeader(InitFields(impl), file)
          /\ file.payload =
                SubSeq(EncodePayload(ScopeDtype(file.data_format),
                                     ScopeEndian(file.marker), samples),
                       1, Len(file.payload))
    /\ (pc = "read_again") => (ret = out /\ ret.status = "ok")

\* a short file was read twice
C27_Witness ==
    /\ pc = "read_again" /\ impl = "utils.wfm"
    /\ ShortFile
    /\ ret.status = "ok" /\ Len(ret.volts) = 1
    /\ reader.num_frames = 2

\* C28: after read_data has truncated a short file, the frame count the
\* reader reports equals the number of traces returned
C28_FrameCountFollowsTruncation ==
    (ReadReturned /\ out.status = "ok") => reader.num_frames = Len(out.volts)

-----------------------------------------------------------------------------
(* Claims about get_dcfd_time, checked under SpecCfd *)

CfdReturned == pc = "done" /\ call.fn = "get_dcfd_time"

\* every sample of the trace has the same value
IsFlat(w) == \A j, k \in DOMAIN w : w[j] = w[k]

\* the first index that holds the least sample of the trace
PeakIndex(w) ==
    CHOOSE k \in DOMAIN w :
        /\ w[k] = SeqMin(w)
        /\ \A j \in 1..(k - 1) : w[j] # SeqMin(w)

\* the indices before the peak whose voltage is above fraction * v_peak
AboveBeforePeak(w, fraction) ==
    {k \in 1..(PeakIndex(w) - 1) :
        fraction.den * w[k] > fraction.num * w[PeakIndex(w)]}

\* the largest of them
SelectedIndex(w, fraction) ==
    CHOOSE k \in AboveBeforePeak(w, fraction) :
        \A j \in AboveBeforePeak(w, fraction) : j <= k

\* C11: get_dcfd_time returns NaN for every trace whose samples are all
\* equal and for every trace whose minimum is above the noise floor of
\* -0.5 mV, in physics.py and in analyse_physical.py
C11_FlatOrQuietIsNaN ==
    (/\ CfdReturned
     /\ \/ IsFlat(call.waveform)
        \/ SeqMin(call.waveform) > -NOISE_FLOOR)
    => ret = NaN

\* C11, for utils.physics.get_dcfd_time alone
C11_PhysicsFlatOrQuietIsNaN ==
    (/\ CfdReturned /\ call.impl = "utils.physics"
     /\ \/ IsFlat(call.waveform)
        \/ SeqMin(call.waveform) > -NOISE_FLOOR)
    => ret = NaN

\* C12: with the peak at the first index of the global minimum and i the
\* largest index before the peak whose voltage is above v_target,
\* get_dcfd_time returns NaN when there is no such index or when i is the last
\* index before the peak; when it returns a time, voltage[i] > v_target >=
\* voltage[i+1], i+1 is before the peak, and the time lies between time[i]
\* and time[i+1]
C12_SelectsLastAbove ==
    CfdReturned =>
        LET w == call.waveform
            f == call.fraction
            peak == PeakIndex(w)
            above == AboveBeforePeak(w, f)
            i == SelectedIndex(w, f)
        IN  /\ (above = {} \/ i = peak - 1) => ret = NaN
            /\ ret # NaN =>
                  /\ above # {}
                  /\ i + 1 < peak
                  /\ f.den * w[i] > f.num * w[peak]
                  /\ f.num * w[peak] >= f.den * w[i + 1]
                  /\ call.time[i] * ret.den <= ret.num
                  /\ ret.num <= call.time[i + 1] * ret.den

\* a time was returned for a trace that dips below v_target and comes back
\* above it before the selected index
C12_Witness ==
    /\ CfdReturned /\ call.impl = "utils.physics" /\ ret # NaN
    /\ \E k \in 1..SelectedIndex(call.waveform, call.fraction) :
          call.fraction.den * call.waveform[k]
             < call.fraction.num * call.waveform[PeakIndex(call.waveform)]

\* C13: a returned time equals
\* time[i] + (time[i+1]-time[i]) * (v_target - voltage[i]) / (voltage[i+1]-voltage[i])
\* for the selected index i, equals time[i] when the two voltages are equal,
\* and lies in [time[i], time[i+1]]
C13_Interpolation ==
    (CfdReturned /\ ret # NaN) =>
        LET w == call.waveform
            t == call.time
            f == call.fraction
            i == SelectedIndex(w, f)
            dv == w[i + 1] - w[i]
        IN  /\ dv = 0 => (ret.num = t[i] /\ ret.den = 1)
            /\ dv # 0 =>
                  ret.num * (f.den * dv)
                    = ret.den * (t[i] * f.den * dv
                                   + (t[i + 1] - t[i])
                                        * (f.num * w[PeakIndex(w)] - f.den * w[i]))
            /\ t[i] * ret.den <= ret.num
            /\ ret.num <= t[i + 1] * ret.den

\* a time strictly between two samples of the axis was returned
C13_Witness ==
    /\ CfdReturned /\ call.impl = "utils.physics" /\ ret # NaN
    /\ ret.den > 1

-----------------------------------------------------------------------------
(* Claims about solve_jitter, checked under SpecJitter *)

JitterReturned == pc = "done" /\ call.fn = "solve_jitter"

\* how many of the six pair variances are not NaN
ValidCount == Cardinality({r \in 1..6 : call.pair_vars[r] # NaN})

\* a float that is a real number >= 0
IsNonNegative(x) ==
    /\ x # NaN
    /\ IF "root_of" \in DOMAIN x THEN x.root_of.num >= 0 ELSE x.num >= 0

\* C15: with fewer than 4 non-NaN pair variances solve_jitter returns an
\* array of 4 NaN without calling the least-squares solver, and returns
\* rather than raises
C15_TooFewValidIsNaN ==
    /\ (JitterReturned /\ ValidCount < 4) =>
          /\ ret.sigmas = <<NaN, NaN, NaN, NaN>>
          /\ ret.lsq_linear_calls = 0
    /\ (pc = "start" /\ call.fn = "solve_jitter" /\ ValidCount < 4) =>
          SolveJitter(call.pair_vars) # {}

\* solve_jitter returned for a list with exactly three valid pair variances
C15_Witness == JitterReturned /\ ValidCount = 3

\* C16: every sigma solved from at least 4 valid pair variances is a real
\* number >= 0, never the NaN of a negative variance
C16_SigmasNonNegative ==
    (JitterReturned /\ ValidCount >= 4) =>
        \A c \in 1..4 : IsNonNegative(ret.sigmas[c])

\* the solver held one channel at the bound while another has a jitter
C16_Witness ==
    /\ JitterReturned /\ ret.lsq_linear_calls = 1 /\ call.sigma = <<>>
    /\ \E c, d \in 1..4 :
          /\ ret.sigmas[c] = Rational(0, 1)
          /\ ret.sigmas[d] # Rational(0, 1)

\* C17: from the six noiseless pair variances s_A^2 + s_B^2, listed in the
\* pair order (1,2),(1,3),(1,4),(2,3),(2,4),(3,4), solve_jitter returns the
\* four sigmas in channel order, and that is the only result it can return
C17_RecoversSigmas ==
    /\ (JitterReturned /\ call.sigma # <<>>) =>
          ret.sigmas = [c \in 1..4 |-> Rational(call.sigma[c], 1)]
    /\ (call.fn = "solve_jitter" /\ call.sigma # <<>>) =>
          Cardinality(SolveJitter(call.pair_vars)) = 1

\* the sigmas 1, 2, 3, 4 went in and came out
C17_Witness ==
    /\ JitterReturned /\ call.sigma = <<1, 2, 3, 4>>
    /\ ret.sigmas = <<Rational(1, 1), Rational(2, 1), Rational(3, 1), Rational(4, 1)>>

\* the pairs whose variance is not NaN: the equations solve_jitter keeps
SolvedPairs == {PairOrder[r] : r \in {k \in 1..6 : call.pair_vars[k] # NaN}}

\* the equations x_A + x_B = y of the pairs fix all four unknowns: no change
\* of the unknowns, not all zero, leaves every sum x_A + x_B as it is (a
\* direction in which such a system is free has entries -1, 0 and 1 only)
DeterminesAll(pairs) ==
    \A d \in [1..4 -> {-1, 0, 1}] :
        (\A p \in pairs : d[p[1]] + d[p[2]] = 0) => d = <<0, 0, 0, 0>>

\* C29: whenever solve_jitter returns a result that is not NaN, the pair
\* equations it solved determine every channel's variance uniquely (the
\* matrix has full column rank 4)
C29_SolvedSystemIsDetermined ==
    (JitterReturned /\ ret.lsq_linear_calls = 1) => DeterminesAll(SolvedPairs)

-----------------------------------------------------------------------------
(* Claims about calculate_cuts, checked under SpecCuts *)

CutsReturned == pc = "done" /\ call.fn = "calculate_cuts"

\* the position of the channel in the stack, 0 (top) to 3 (bottom)
StackPosition(ch) == (CHOOSE k \in 1..4 : call.config_str[k] = ch) - 1

\* how many amplitudes of the channel are in the 5 mV bin that starts at lo
InBin(ch, lo) ==
    Cardinality({j \in DOMAIN call.amplitudes[ch] :
                    lo <= call.amplitudes[ch][j] /\ call.amplitudes[ch][j] < lo + 50})

\* the start of the first 5 mV bin with the largest count
PeakBinStart(ch) ==
    CHOOSE lo \in {50 * k : k \in 0..99} :
        \A other \in {50 * k : k \in 0..99} :
            \/ InBin(ch, other) < InBin(ch, lo)
            \/ InBin(ch, other) = InBin(ch, lo) /\ lo <= other

\* C19: every channel's cut is >= the floor of 50 mV; at position 0 or 3 it
\* is max(floor, 0.9 * centre of the histogram bin of maximum count), at
\* position 1 or 2 it is exactly the floor
C19_CutsByPosition ==
    CutsReturned =>
        \A ch \in 1..4 :
            LET cut == ret.cuts[ch]
                \* 0.9 * (lo + 25), in units of 1/20
                peak20 == 18 * (PeakBinStart(ch) + 25)
            IN  /\ cut.num >= 500 * cut.den
                /\ StackPosition(ch) \in {0, 3} =>
                      /\ peak20 >= 20 * 500 => 20 * cut.num = peak20 * cut.den
                      /\ peak20 < 20 * 500 => cut = Rational(500, 1)
                /\ StackPosition(ch) \in {1, 2} => cut = Rational(500, 1)

\* cuts were computed where a middle channel has its peak high enough for a
\* peak-relative cut and an outer channel gets one
C19_Witness ==
    /\ CutsReturned
    /\ \E ch, top \in 1..4 :
          /\ StackPosition(ch) \in {1, 2}
          /\ PeakBinStart(ch) = 550
          /\ StackPosition(top) = 0
          /\ ret.cuts[top] = Rational(1035, 2)

-----------------------------------------------------------------------------
(* Claims about analyze_run, checked under SpecRun *)

\* extract_timings has returned in analyze_run
RunTimed == call.fn = "analyze_run" /\ pc \in {"timed", "pairs", "saved"}

\* the events of the run in which no channel has a frame with a positive
\* spike (noise) or with a pulse below the cut floor (clipped)
UndisturbedEvents ==
    {e \in 0..(loaded.num_events - 1) :
        \A ch \in DOMAIN loaded.data :
            loaded.data[ch][e + 1] \notin {FrameSpike, FrameSmall}}

\* the k-th of them, in increasing order
KthUndisturbed(k) ==
    CHOOSE e \in UndisturbedEvents :
        Cardinality({d \in UndisturbedEvents : d < e}) = k - 1

\* where the pulse of a frame crosses 30% of its peak: -3 + 2 * 600 / 1200
\* and -3 + 2 * 600 / 800 ns; never, when no sample lies on the edge
FrameTime(frame) ==
    CASE frame = FramePulse -> Rational(-2, 1)
      [] frame = FrameLatePulse -> Rational(-3, 2)
      [] frame = FrameNoEdge -> NaN

\* C25: extract_timings returns, for every channel, one entry per clean
\* event and none for a noise or clipped event; the k-th entry of every
\* channel is the arrival time of that channel in the k-th clean event
C25_TimesOfCleanEvents ==
    RunTimed =>
        \A ch \in 1..4 :
            /\ Len(ret.times[ch]) = Cardinality(UndisturbedEvents)
            /\ Len(ret.times[ch]) = Len(cout.clean)
            /\ \A k \in DOMAIN ret.times[ch] :
                  ret.times[ch][k] =
                     FrameTime(loaded.data[ch][KthUndisturbed(k) + 1])

\* a run with a noise event and a clipped event before the event in which
\* channel 1 has no time: that event is the 4th clean one in every channel
C25_Witness ==
    /\ RunTimed
    /\ cout.noise = <<1>> /\ cout.clipped = <<3>>
    /\ Len(ret.times[1]) = 10
    /\ ret.times[1][4] = NaN
    /\ ret.times[2][4] = Rational(-3, 2)

\* C30: the time axis load_run_data returns for a run has the length of the
\* traces of every channel it returns
C30_TimeAxisFitsEveryChannel ==
    (call.fn = "analyze_run" /\ loaded.status = "ok")
        => \A ch \in DOMAIN loaded.data :
              \A i \in DOMAIN loaded.data[ch] :
                  Len(loaded.data[ch][i]) = Len(loaded.time)

\* the run directory lacks the capture file of a channel of its stack
MissingChannel == \E ch \in 1..4 : run[ch] = NoFile

\* C20: a run that lacks the capture file of one of its 4 channels is
\* skipped: no cuts are computed and no events are classified on the
\* channels that are present
C20_IncompleteRunSkipped ==
    (call.fn = "analyze_run" /\ MissingChannel) =>
        /\ run_cuts = NoCuts
        /\ cout = NoCat

-----------------------------------------------------------------------------
(* Claims about extract_timings and the pair statistics, checked under
   SpecTiming *)

\* get_dcfd_time fails on the trace of channel ch in the k-th listed event
CfdFails(ch, k) == call.data[ch][call.indices[k] + 1] = <<0, 0, 0>>

\* the time at which the pulse of channel ch crosses 30% of its peak:
\* -3 + 2 * 0.3 * (2000 + 1000 ch) / 2000 ns
CrossingTime(ch) == Rational((3 * ch) - 24, 10)

\* the listed events in which the pulses of both channels are present
BothPresent(chA, chB) ==
    {k \in DOMAIN call.indices : ~CfdFails(chA, k) /\ ~CfdFails(chB, k)}

\* C21: a CFD failure gives NaN for that channel and event only: every other
\* event and channel still gets its arrival time, and the time differences,
\* the mean and the variance of a pair are taken over exactly the events in
\* which both channels have a time
C21_FailureIsLocal ==
    /\ (call.fn = "extract_timings" /\ pc # "start") =>
          /\ ret.status = "ok"
          /\ \A ch \in 1..4 :
                /\ Len(ret.times[ch]) = Len(call.indices)
                /\ \A k \in DOMAIN call.indices :
                      ret.times[ch][k] =
                         (IF CfdFails(ch, k) THEN NaN ELSE CrossingTime(ch))
    /\ (call.fn = "extract_timings" /\ pc = "done") =>
          \A r \in 1..6 :
             LET chA == PairOrder[r][1]
                 chB == PairOrder[r][2]
                 n == Cardinality(BothPresent(chA, chB))
                 p == ret.pairs[r]
             IN  /\ Len(p.delta_t) = n
                 /\ \A j \in 1..n : p.delta_t[j] = Rational(3 * (chA - chB), 10)
                 /\ p.mean = (IF n = 0 THEN NaN ELSE Rational(3 * (chA - chB), 10))
                 /\ p.variance = (IF n = 0 THEN NaN ELSE Rational(0, 1))

\* the first listed event failed on channel 1 only, the second on no channel,
\* and the pairs of channel 1 have one time difference, the others two
C21_Witness ==
    /\ call.fn = "extract_timings" /\ pc = "done"
    /\ Len(call.indices) = 2
    /\ CfdFails(1, 1) /\ \A ch \in 2..4 : ~CfdFails(ch, 1)
    /\ \A ch \in 1..4 : ~CfdFails(ch, 2)
    /\ Len(ret.pairs[1].delta_t) = 1
    /\ Len(ret.pairs[6].delta_t) = 2

-----------------------------------------------------------------------------
(* Claims about a batch of runs, checked under SpecBatch *)

\* the loop over the runs has ended: every run was taken from the list, or
\* an exception left main
BatchOver ==
    \/ pc = "aborted"
    \/ pc = "next" /\ batch.pos = Len(batch.runs)

\* every run of the list has its report, in the order of the list
EveryRunReported ==
    /\ Len(batch.log) = Len(batch.runs)
    /\ \A k \in 1..Len(batch.log) : batch.log[k].run = batch.runs[k]

\* C22: in a batch over several runs, an error raised while one run is
\* processed is caught at the loop over the runs and reported, and every
\* later run of the batch is still processed, in order: when the loop has
\* ended, every run of the list has been processed
C22_LaterRunsProcessed ==
    (batch.driver # "none" /\ BatchOver) => EveryRunReported

\* C22, for the loop of process_run.main alone
C22_ProcessRunLoopSurvives ==
    (batch.driver = "process_run" /\ BatchOver) => EveryRunReported

\* a batch of process_run.main has ended in which a run whose analysis
\* raised is followed by another run
C22_ProcessRunWitness ==
    /\ batch.driver = "process_run" /\ BatchOver
    /\ \E k \in 1..(Len(batch.log) - 1) :
          /\ batch.log[k].outcome \in {"error printed", "error printed by main"}
          /\ batch.log[k + 1].outcome = "saved"

\* C23: the results computed for a run (cuts, lists of clean, clipped and
\* noise events, arrival times, sigmas) depend only on the files of that
\* run: a run processed twice in a batch of process_run.main yields the same
\* report both times, whatever runs were processed before each
C23_RunsAreIndependent ==
    batch.driver = "process_run" =>
        \A j, k \in 1..Len(batch.log) :
            batch.log[j].run = batch.log[k].run => batch.log[j] = batch.log[k]

\* a run was analysed to its sigmas first in the batch and again after a
\* run of another kind, and a run that failed was processed again after a
\* run that succeeded
C23_Witness ==
    /\ batch.driver = "process_run"
    /\ Len(batch.log) = 3
    /\ batch.log[1].run = batch.log[3].run
    /\ batch.log[2].run # batch.log[1].run
    /\ \/ /\ batch.log[1].outcome = "saved"
          /\ batch.log[2].outcome \in {"error printed", "error printed by main"}
          /\ \A c \in 1..4 : ~batch.log[3].timing.sigmas[c].nan
       \/ /\ batch.log[1].outcome \in {"error printed", "error printed by main"}
          /\ batch.log[2].outcome = "saved"

====
